---- MODULE Spec2Model ----
(***************************************************************************)
(* A model of the session / role / tenant-selection logic of WenKey2.0:    *)
(*   - useUserRole            (src/src/hooks/useUserRole.tsx)              *)
(*   - AuthProvider           (src/src/contexts/AuthContext.tsx)           *)
(*   - CompanyProvider        (src/src/contexts/CompanyContext.tsx)        *)
(*   - CompanySelector        (src/unnamed/part_000, lines 352-563)        *)
(*   - CompanySelectionModal  (src/src/components/CompanySelectionModal)   *)
(*   - PerformanceHistory.loadCompanies                                    *)
(* Three specifications share the variables: SpecRole (the role hook),     *)
(* SpecAuth / SpecAuthFair (the auth provider) and SpecSel (the tenant     *)
(* selector).  A specification leaves the other components' variables     *)
(* unchanged.                                                              *)
(***************************************************************************)
EXTENDS Integers, Sequences, FiniteSets, TLC

NULL == "null"

\* No company: what a null Company reads as (a record, like a Company).
NoCompany == [id |-> NULL, name |-> NULL]

\* A localStorage key that is not set.
Absent == <<>>

\* ------------------------------------------------------------------------
\* The backend's identities and their permission tier (profiles.permission_type)
\* ------------------------------------------------------------------------
Users == {"ana", "mel", "bob"}

Tier(u) ==
  CASE u = "ana" -> "admin"
    [] u = "mel" -> "manager"
    [] OTHER     -> "user"

UserRole == {"admin", "manager", "user"}

\* The identities that sign in on this browser.
SessionUsers == {"ana", "bob"}

\* Bound: role queries of one identity that may be in flight at once.
MaxRoleQueries == 2

VARIABLES
  \* ---- AuthProvider state (AuthContext.tsx 28-31)
  user,            \* the identity, or NULL
  session,         \* the session's identity, or NULL
  profile,         \* the id of the loaded profile, or NULL
  authLoading,     \* AuthProvider's loading flag
  \* ---- AuthProvider's asynchronous activity
  authMounted,     \* the effect's `mounted` flag
  initPc,          \* position of initializeAuth
  initTimer,       \* the safety timeout: "pending", "cleared" or "fired"
  fetches,         \* fetchProfile calls in flight
  soPc,            \* position of signOut
  lastStep,        \* what the step that led here did (for stating the claims)
  nav,             \* the last navigation issued, or NULL
  eventsLeft,      \* auth-state notifications the environment may still send
  \* ---- useUserRole state (useUserRole.tsx 9-10) of one hook instance
  role,
  roleLoading,
  roleQueries,     \* in-flight role queries per identity
  roleOutcome,     \* how the latest completed query of the current identity ended
  \* ---- browser storage
  lsSelectedCompany,    \* localStorage 'selectedCompany': the JSON text, or Absent
  lsSelectedCompanyId,  \* localStorage 'selectedCompanyId': the id, or Absent
  ssMarker,             \* sessionStorage 'admin_session_started' present
  \* ---- CompanyProvider state (CompanyContext.tsx 18)
  selectedCompany,      \* a Company, or NoCompany
  \* ---- CompanySelector state (part_000 353-358) and its fetch in flight
  selMounted,
  hasInitialized,
  companies,            \* the visible list, a sequence of Company
  selLoading,
  fetch,                \* the live fetchCompanies call: what it captured
  \* ---- CompanySelectionModal and PerformanceHistory lists
  modalCompanies,
  perfCompanies,
  \* ---- the backend's companies table, and what the environment may still do
  dbActive,             \* is_active per company
  dbChangesLeft,
  signInsLeft,
  reloadsLeft,
  \* ---- for stating the claims
  clears,               \* clears by the fresh-admin-session rule since sign-out
  chosen,               \* the selection at hand was picked in the modal or the dialog
  lastFetched,          \* the latest fetched visible list, and for whom
  \* ---- Dashboard (part_003): the backend rows it reads, and its own state
  okr,                  \* today, quarters, quarter_results, profiles, objectives, check-ins
  dash,                 \* appState and the five aggregates on screen
  \* ---- ProtectedRoute's own useUserRole instance (part_006 30)
  routeRole,
  routeRoleLoading,
  routeRoleQueries       \* its role queries in flight

authVars == <<user, session, profile, authLoading, authMounted, initPc, initTimer,
              fetches, soPc, lastStep, nav, eventsLeft>>
roleVars == <<role, roleLoading, roleQueries, roleOutcome>>
storeVars == <<lsSelectedCompany, lsSelectedCompanyId, ssMarker>>
selVars == <<selectedCompany, selMounted, hasInitialized, companies, selLoading,
             fetch, modalCompanies, perfCompanies, dbActive,
             dbChangesLeft, signInsLeft, reloadsLeft, clears, chosen,
             lastFetched>>

dashVars == <<okr, dash>>
gateVars == <<routeRole, routeRoleLoading, routeRoleQueries>>

vars == <<authVars, roleVars, storeVars, selVars, dashVars, gateVars>>

\* ========================================================================
\* useUserRole
\* ========================================================================

\* useUserRole.tsx 12-33: the effect that runs when `user` changes.
RoleEffect(u) ==
  IF u = NULL
    THEN /\ role' = "user"
         /\ roleLoading' = FALSE
         /\ roleQueries' = roleQueries
    ELSE /\ roleQueries[u] < MaxRoleQueries
         /\ roleQueries' = [roleQueries EXCEPT ![u] = @ + 1]
         /\ UNCHANGED <<role, roleLoading>>

\* An auth-state change delivers a (new) user object to the hook; u may be the
\* identity already held (a refreshed token gives a new object).
RoleUserChange ==
  \E u \in Users \cup {NULL} :
    /\ user' = u
    /\ RoleEffect(u)
    /\ roleOutcome' = "none"
    /\ UNCHANGED <<session, profile, authLoading, authMounted, initPc, initTimer,
                   fetches, soPc, lastStep, nav, eventsLeft, storeVars, selVars, dashVars, gateVars>>

RoleQueryOutcomes == {"ok", "error", "noTier"}

\* useUserRole.tsx 26-29: what fetchRole does with the answer.
ApplyRole(u, outcome) ==
  /\ role' = IF outcome = "ok" THEN Tier(u) ELSE role
  /\ roleLoading' = FALSE

\* useUserRole.tsx 19-30: a role query of identity u returns.
FetchRoleReturns ==
  \E u \in Users, outcome \in RoleQueryOutcomes :
    /\ roleQueries[u] > 0
    /\ roleQueries' = [roleQueries EXCEPT ![u] = @ - 1]
    /\ ApplyRole(u, outcome)
    /\ roleOutcome' = IF u = user
                        THEN (IF outcome = "ok" THEN "ok" ELSE "failed")
                        ELSE roleOutcome
    /\ UNCHANGED <<authVars, storeVars, selVars, dashVars, gateVars>>

\* The component holding the hook is mounted anew: fresh state (useUserRole.tsx
\* 9-10), the old instance's queries no longer reach any state, and the effect
\* runs for the identity at hand.
RoleRemount ==
  /\ IF user = NULL
       THEN /\ role' = "user"
            /\ roleLoading' = FALSE
            /\ roleQueries' = [u \in Users |-> 0]
       ELSE /\ role' = "user"
            /\ roleLoading' = TRUE
            /\ roleQueries' = [u \in Users |-> IF u = user THEN 1 ELSE 0]
  /\ roleOutcome' = "none"
  /\ UNCHANGED <<authVars, storeVars, selVars, dashVars, gateVars>>

\* ========================================================================
\* AuthProvider
\* ========================================================================

\* Bounds: fetchProfile calls in flight at once, and auth-state notifications
\* the environment sends.
MaxFetches == 1
MaxEvents == 1

\* AuthContext.tsx 47 and 82: `retryCount < 3`.
MaxRetries == 3
\* AuthContext.tsx 49 and 84: `1000 * (retryCount + 1)`.
RetryDelayUnit == 1000

AuthEvents == {"SIGNED_IN", "PASSWORD_RECOVERY"}

\* AuthContext.tsx 47, 82: may a failed attempt be retried?
RetryAllowedOffByOne(retryCount) == retryCount <= MaxRetries
RetryAllowed(retryCount) == retryCount < MaxRetries

\* AuthContext.tsx 49, 84: the delay before the retry of a failed attempt.
RetryDelay(retryCount) == RetryDelayUnit * (retryCount + 1)

\* What a step did, as the claims need it.
Other == [kind |-> "other"]
AttemptEnd(f, how) == [kind |-> "attempt", how |-> how, origin |-> f.origin]

\* A fetchProfile call: the identity asked for, the attempt's retryCount, where
\* the attempt stands, who called (and whether the caller still awaits this
\* attempt), and the delays its retries were scheduled with so far.
NewFetch(u, origin, event) ==
  [uid |-> u, retryCount |-> 0, phase |-> "q1", origin |-> origin,
   awaited |-> TRUE, event |-> event, delays |-> <<>>]

\* What the caller awaiting attempt f does once the attempt returns:
\*   initializeAuth (finally, AuthContext.tsx 133-138),
\*   the onAuthStateChange callback (AuthContext.tsx 162-166).
LoadingAfter(f) ==
  IF ~f.awaited THEN authLoading
  ELSE IF f.origin = "init" THEN (IF authMounted THEN FALSE ELSE authLoading)
  ELSE FALSE

InitPcAfter(f) ==
  IF f.awaited /\ f.origin = "init" THEN "done" ELSE initPc

NavAfter(f) ==
  IF f.awaited /\ f.origin = "event" /\ f.event = "PASSWORD_RECOVERY"
    THEN "/reset-password"
    ELSE nav

CallerResumes(f) ==
  /\ authLoading' = LoadingAfter(f)
  /\ initPc' = InitPcAfter(f)
  /\ nav' = NavAfter(f)

\* AuthContext.tsx 43-55 and 80-88: an attempt failed (error result or throw).
AttemptFailed(f) ==
  IF RetryAllowed(f.retryCount)
    THEN /\ fetches' = (fetches \ {f}) \cup
                {[f EXCEPT !.phase = "timer", !.retryCount = @ + 1,
                           !.awaited = FALSE,
                           !.delays = Append(@, RetryDelay(f.retryCount))]}
         /\ profile' = profile
         /\ lastStep' = AttemptEnd(f, "retry")
    ELSE /\ fetches' = fetches \ {f}
         /\ profile' = NULL
         /\ lastStep' = AttemptEnd(f, "exhausted")

\* AuthContext.tsx 37-41: the profile query of an attempt returns.
ProfileQueryReturns ==
  \E f \in fetches, outcome \in {"error", "throw", "none", "data"} :
    /\ f.phase = "q1"
    /\ CASE outcome \in {"error", "throw"} ->
              AttemptFailed(f) /\ CallerResumes(f)
         [] outcome = "none" ->
              /\ fetches' = fetches \ {f}
              /\ profile' = NULL
              /\ lastStep' = AttemptEnd(f, "noProfile")
              /\ CallerResumes(f)
         [] OTHER ->
              /\ fetches' = (fetches \ {f}) \cup {[f EXCEPT !.phase = "q2"]}
              /\ lastStep' = Other
              /\ UNCHANGED <<profile, authLoading, initPc, nav>>
    /\ UNCHANGED <<user, session, authMounted, initTimer, soPc,
                   eventsLeft, roleVars, storeVars, selVars, dashVars, gateVars>>

\* AuthContext.tsx 60-76: the permission_type query returns and the profile is set.
PermissionQueryReturns ==
  \E f \in fetches, outcome \in {"ok", "throw"} :
    /\ f.phase = "q2"
    /\ IF outcome = "throw"
         THEN AttemptFailed(f)
         ELSE /\ fetches' = fetches \ {f}
              /\ profile' = f.uid
              /\ lastStep' = AttemptEnd(f, "loaded")
    /\ CallerResumes(f)
    /\ UNCHANGED <<user, session, authMounted, initTimer, soPc,
                   eventsLeft, roleVars, storeVars, selVars, dashVars, gateVars>>

\* AuthContext.tsx 49, 84: the retry timer of a failed attempt fires.
RetryTimerFires ==
  \E f \in fetches :
    /\ f.phase = "timer"
    /\ fetches' = (fetches \ {f}) \cup {[f EXCEPT !.phase = "q1"]}
    /\ lastStep' = Other
    /\ UNCHANGED <<user, session, profile, authLoading, authMounted, initPc,
                   initTimer, soPc, nav, eventsLeft, roleVars, storeVars, selVars, dashVars, gateVars>>

\* The backend never answers the profile query of an attempt.
ProfileQueryHangs ==
  \E f \in fetches :
    /\ f.phase = "q1"
    /\ fetches' = (fetches \ {f}) \cup {[f EXCEPT !.phase = "hung"]}
    /\ lastStep' = Other
    /\ UNCHANGED <<user, session, profile, authLoading, authMounted, initPc,
                   initTimer, soPc, nav, eventsLeft, roleVars, storeVars, selVars, dashVars, gateVars>>

\* AuthContext.tsx 112-130: getSession returns a session (of identity s, or none).
GetSessionReturns ==
  \E s \in SessionUsers \cup {NULL} :
    /\ initPc = "getSession"
    /\ initTimer' = IF initTimer = "pending" THEN "cleared" ELSE initTimer
    /\ IF ~authMounted
         THEN /\ initPc' = "done"
              /\ UNCHANGED <<user, session, authLoading, fetches>>
         ELSE /\ session' = s
              /\ user' = s
              /\ IF s # NULL
                   THEN /\ Cardinality(fetches) < MaxFetches
                        /\ fetches' = fetches \cup {NewFetch(s, "init", "NONE")}
                        /\ initPc' = "awaitProfile"
                        /\ authLoading' = authLoading
                   ELSE /\ fetches' = fetches
                        /\ initPc' = "done"
                        /\ authLoading' = FALSE
    /\ lastStep' = Other
    /\ UNCHANGED <<profile, authMounted, soPc, nav, eventsLeft, roleVars, storeVars, selVars, dashVars, gateVars>>

\* AuthContext.tsx 131-138: getSession throws.
GetSessionThrows ==
  /\ initPc = "getSession"
  /\ initTimer' = IF initTimer = "pending" THEN "cleared" ELSE initTimer
  /\ initPc' = "done"
  /\ authLoading' = IF authMounted THEN FALSE ELSE authLoading
  /\ lastStep' = Other
  /\ UNCHANGED <<user, session, profile, authMounted, fetches, soPc,
                 nav, eventsLeft, roleVars, storeVars, selVars, dashVars, gateVars>>

\* The auth service never answers getSession.
GetSessionHangs ==
  /\ initPc = "getSession"
  /\ initPc' = "hung"
  /\ lastStep' = Other
  /\ UNCHANGED <<user, session, profile, authLoading, authMounted, initTimer,
                 fetches, soPc, nav, eventsLeft, roleVars, storeVars, selVars, dashVars, gateVars>>

\* AuthContext.tsx 103-108: the safety timeout fires.
InitTimerFires ==
  /\ initTimer = "pending"
  /\ initTimer' = "fired"
  /\ authLoading' = IF authMounted THEN FALSE ELSE authLoading
  /\ lastStep' = Other
  /\ UNCHANGED <<user, session, profile, authMounted, initPc, fetches, soPc,
                 nav, eventsLeft, roleVars, storeVars, selVars, dashVars, gateVars>>

\* AuthContext.tsx 144-168: an auth-state notification with session s.
AuthStateChange ==
  \E event \in AuthEvents, s \in SessionUsers \cup {NULL} :
    /\ authMounted
    /\ eventsLeft > 0
    /\ eventsLeft' = eventsLeft - 1
    /\ session' = s
    /\ user' = s
    /\ IF s # NULL
         THEN /\ Cardinality(fetches) < MaxFetches
              /\ fetches' = fetches \cup {NewFetch(s, "event", event)}
              /\ UNCHANGED <<profile, authLoading, nav>>
         ELSE /\ profile' = NULL
              /\ authLoading' = FALSE
              /\ nav' = IF event = "PASSWORD_RECOVERY"
                          THEN "/reset-password" ELSE nav
              /\ fetches' = fetches
    /\ lastStep' = Other
    /\ UNCHANGED <<authMounted, initPc, initTimer, soPc, roleVars, storeVars, selVars, dashVars, gateVars>>

\* AuthContext.tsx 181-185: the provider's effect is cleaned up.
AuthUnmount ==
  /\ authMounted
  /\ authMounted' = FALSE
  /\ lastStep' = Other
  /\ UNCHANGED <<user, session, profile, authLoading, initPc, initTimer, fetches,
                 soPc, nav, eventsLeft, roleVars, storeVars, selVars, dashVars, gateVars>>

\* AuthContext.tsx 188-191: signOut() is called and awaits the remote sign-out.
SignOutCall ==
  /\ user # NULL
  /\ soPc = "idle"
  /\ soPc' = "awaiting"
  /\ lastStep' = Other
  /\ UNCHANGED <<user, session, profile, authLoading, authMounted, initPc,
                 initTimer, fetches, nav, eventsLeft, roleVars, storeVars, selVars, dashVars, gateVars>>

\* AuthContext.tsx 194-205: the local clearing of the finally block.
SignOutClearKeepsLegacyKey ==
  /\ profile' = NULL
  /\ session' = NULL
  /\ user' = NULL
  /\ lsSelectedCompany' = Absent
  /\ lsSelectedCompanyId' = lsSelectedCompanyId
  /\ ssMarker' = FALSE
SignOutClear ==
  /\ profile' = NULL
  /\ session' = NULL
  /\ user' = NULL
  /\ lsSelectedCompanyId' = Absent
  /\ lsSelectedCompany' = Absent
  /\ ssMarker' = FALSE

\* AuthContext.tsx 191-208: the remote call ends (resolves or throws); the
\* finally block clears the local state and then navigates, in one turn.
SignOutRemoteEnds ==
  \E outcome \in {"ok", "threw"} :
    /\ soPc = "awaiting"
    /\ lastStep' = [kind |-> "signOut", how |-> outcome]
    /\ SignOutClear
    /\ nav' = "/auth"
    /\ soPc' = "idle"
    /\ UNCHANGED <<authLoading, authMounted, initPc, initTimer, fetches,
                   eventsLeft, roleVars, selVars, dashVars, gateVars>>

\* ========================================================================
\* The companies table
\* ========================================================================
Companies == {"c1", "c2", "c3"}

\* companies.name
DbName(c) ==
  CASE c = "c1" -> "Zeta"
    [] c = "c2" -> "Acme"
    [] OTHER    -> "Mid"

\* company_members: the companies an identity is a member of.
Members(u) ==
  CASE u = "bob" -> {"c1", "c2"}
    [] u = "mel" -> {"c3"}
    [] OTHER     -> {}

\* CompanyContext.tsx 28: the name of a selection restored from the legacy key.
Placeholder == "Carregando..."

\* The order of names under localeCompare / ORDER BY name.
NameRank(n) ==
  CASE n = "Acme"      -> 1
    [] n = Placeholder -> 2
    [] n = "Mid"       -> 3
    [] n = "Zeta"      -> 4
    [] OTHER           -> 5

CompanyOf(c) == [id |-> c, name |-> DbName(c)]

\* Bounds of the selector's environment.
MaxDbChanges == 1
MaxSignIns == 2
MaxReloads == 1

\* The ids of set S in the order of their names (part_000 393, 409).
RECURSIVE SortedByName(_)
SortedByName(S) ==
  IF S = {} THEN <<>>
  ELSE LET first == CHOOSE c \in S :
                      \A d \in S : NameRank(DbName(c)) <= NameRank(DbName(d))
       IN  <<CompanyOf(first)>> \o SortedByName(S \ {first})

\* part_000 388-410: the list fetchCompanies builds for role r and identity u.
VisibleList(r, u) ==
  IF r = "admin"
    THEN SortedByName({c \in Companies : dbActive[c]})
    ELSE SortedByName({c \in Members(u) : dbActive[c]})

\* CompanySelectionModal.tsx 50-54: the modal's list.
ModalList == SortedByName({c \in Companies : dbActive[c]})

\* PerformanceHistory.tsx 91-94: the company filter's list.
PerfList == SortedByName(Companies)

Ids(list) == {list[i].id : i \in 1..Len(list)}

\* list.find(c => c.id === id), or NoCompany.
Find(list, id) ==
  IF id \in Ids(list)
    THEN list[CHOOSE i \in 1..Len(list) : list[i].id = id]
    ELSE NoCompany

\* ========================================================================
\* CompanyProvider
\* ========================================================================

\* JSON.stringify / JSON.parse of a Company (CompanyContext.tsx 22, 38).
Stringify(c) == <<c.id, c.name>>
Parse(t) == [id |-> t[1], name |-> t[2]]

\* CompanyContext.tsx 18-34: the initial selection read from localStorage.
InitialSelection(saved, legacyId) ==
  IF saved # Absent THEN Parse(saved)
  ELSE IF legacyId # Absent THEN [id |-> legacyId[1], name |-> Placeholder]
  ELSE NoCompany

\* CompanyContext.tsx 36-45: the effect that persists the selection.
PersistKeepsKeysOnNull(sel) ==
  IF sel # NoCompany
    THEN /\ lsSelectedCompany' = Stringify(sel)
         /\ lsSelectedCompanyId' = <<sel.id>>
    ELSE UNCHANGED <<lsSelectedCompany, lsSelectedCompanyId>>
Persist(sel) ==
  IF sel # NoCompany
    THEN /\ lsSelectedCompany' = Stringify(sel)
         /\ lsSelectedCompanyId' = <<sel.id>>
    ELSE /\ lsSelectedCompany' = Absent
         /\ lsSelectedCompanyId' = Absent

\* setSelectedCompany(sel) and the persist effect it triggers; setting null
\* over null changes nothing and triggers no effect.
SetSelectedCompany(sel) ==
  /\ selectedCompany' = sel
  /\ IF sel = NoCompany /\ selectedCompany = NoCompany
       THEN UNCHANGED <<lsSelectedCompany, lsSelectedCompanyId>>
       ELSE Persist(sel)

KeepSelectedCompany ==
  UNCHANGED <<selectedCompany, lsSelectedCompany, lsSelectedCompanyId>>

\* ========================================================================
\* ProtectedRoute, CompanySelector, CompanySelectionModal, PerformanceHistory
\* ========================================================================

NoFetch == [uid |-> NULL, role |-> NULL, sel |-> NoCompany]
NoList == [uid |-> NULL, role |-> NULL, ids |-> {}]

\* part_006 28-61: what ProtectedRoute renders.  `blocked` stands for an
\* inactive profile on a page other than /pending-approval (part_006 49-51).
ProtectedRouteRenderNoAdminGate(loading, u, rLoading, r, blocked, sel) ==
  IF loading \/ (u # NULL /\ rLoading) THEN "spinner"
  ELSE IF u = NULL THEN "toAuth"
  ELSE IF blocked THEN "toPendingApproval"
  ELSE "children"
ProtectedRouteRender(loading, u, rLoading, r, blocked, sel) ==
  IF loading \/ (u # NULL /\ rLoading) THEN "spinner"
  ELSE IF u = NULL THEN "toAuth"
  ELSE IF blocked THEN "toPendingApproval"
  ELSE IF r = "admin" /\ sel = NoCompany THEN "placeholder"
  ELSE "children"

\* Does ProtectedRoute render the layout (and the selector in it) for identity
\* u with selection sel, once auth and its role query have settled?  Its role
\* is the identity's tier; the identities here have active profiles.
RouteShowsChildren(u, sel) ==
  ProtectedRouteRender(FALSE, u, FALSE, IF u = NULL THEN "user" ELSE Tier(u),
                       FALSE, sel) = "children"

\* CompanySelectionModal.tsx 27: isOpen, from what the modal's hooks return.
IsOpen(u, aLoading, p, rLoading, r, sel) ==
  u # NULL /\ ~aLoading /\ p # NULL /\ ~rLoading /\ r = "admin" /\ sel = NoCompany

\* isOpen once auth has loaded and the modal's own role query has settled on
\* the identity's tier.
ModalIsOpen ==
  IsOpen(user, FALSE, profile, FALSE, IF user = NULL THEN "user" ELSE Tier(user),
         selectedCompany)

\* part_000 365-368: does this pass of the fresh-admin-login effect clear?
FreshAdminClearsIgnoringMarker(r, sel, marker) ==
  r = "admin" /\ sel # NoCompany
FreshAdminClears(r, sel, marker) ==
  r = "admin" /\ sel # NoCompany /\ ~marker

\* part_000 416-439 (part_001 50-78): what reconciliation does with the
\* selection, given the fetched list, the selection the effect captured and its
\* role: `set` tells whether it calls setSelectedCompany, `to` with what.
ReconcileClearsUnlisted(list, sel, r) ==
  IF Len(list) > 0
    THEN LET currentInList == IF sel # NoCompany THEN Find(list, sel.id)
                              ELSE NoCompany
         IN  IF currentInList # NoCompany
               THEN [set |-> currentInList.name # sel.name, to |-> currentInList]
               ELSE IF r # "admin"
                      THEN [set |-> TRUE, to |-> list[1]]
                      ELSE [set |-> TRUE, to |-> NoCompany]
    ELSE [set |-> TRUE, to |-> NoCompany]
Reconcile(list, sel, r) ==
  IF Len(list) > 0
    THEN LET currentInList == IF sel # NoCompany THEN Find(list, sel.id)
                              ELSE NoCompany
         IN  IF currentInList # NoCompany
               THEN [set |-> currentInList.name # sel.name, to |-> currentInList]
               ELSE IF r # "admin"
                      THEN [set |-> TRUE, to |-> list[1]]
                      ELSE [set |-> FALSE, to |-> NoCompany]
    ELSE [set |-> FALSE, to |-> NoCompany]

\* A CompanySelector that is not mounted has no state; it reads as the state
\* a mount starts with (part_000 356-358, useUserRole.tsx 9-10).
SelectorFresh ==
  /\ hasInitialized' = FALSE
  /\ companies' = <<>>
  /\ selLoading' = TRUE
  /\ fetch' = NoFetch
  /\ role' = "user"
  /\ roleLoading' = TRUE
  /\ roleOutcome' = "none"

SelAuthIdle ==
  UNCHANGED <<authLoading, authMounted, initPc, initTimer, fetches, soPc, dashVars, gateVars>>

\* The auth provider resolves identity u (sign-in, or the restored session).
SelSignIn ==
  \E u \in Users :
    /\ user = NULL
    /\ signInsLeft > 0
    /\ signInsLeft' = signInsLeft - 1
    /\ user' = u
    /\ session' = u
    /\ profile' = u
    /\ lastStep' = Other
    /\ SelAuthIdle
    /\ UNCHANGED <<nav, eventsLeft, roleVars, storeVars, selectedCompany, selMounted,
                   hasInitialized, companies, selLoading, fetch,
                   modalCompanies, perfCompanies, dbActive, dbChangesLeft,
                   reloadsLeft, clears, chosen, lastFetched>>

\* AuthContext.tsx 188-208: signOut(); the route redirects and the layout
\* unmounts.  The provider's selectedCompany state is not touched.
SelSignOut ==
  /\ user # NULL
  /\ SignOutClear
  /\ nav' = "/auth"
  /\ lastStep' = [kind |-> "signOut", how |-> "ok"]
  /\ selMounted' = FALSE
  /\ SelectorFresh
  /\ roleQueries' = [u \in Users |-> 0]
  /\ clears' = 0
  /\ chosen' = FALSE
  /\ lastFetched' = NoList
  /\ SelAuthIdle
  /\ UNCHANGED <<eventsLeft, selectedCompany, modalCompanies,
                 perfCompanies, dbActive, dbChangesLeft, signInsLeft, reloadsLeft>>

\* The page is reloaded: CompanyProvider starts from localStorage
\* (CompanyContext.tsx 18-45), every component starts anew, sessionStorage and
\* the session stay.
Reload ==
  /\ reloadsLeft > 0
  /\ reloadsLeft' = reloadsLeft - 1
  /\ selectedCompany' = InitialSelection(lsSelectedCompany, lsSelectedCompanyId)
  /\ Persist(InitialSelection(lsSelectedCompany, lsSelectedCompanyId))
  /\ selMounted' = FALSE
  /\ SelectorFresh
  /\ modalCompanies' = <<>>
  /\ perfCompanies' = <<>>
  /\ roleQueries' = [u \in Users |-> 0]
  /\ lastFetched' = NoList
  /\ chosen' = (chosen /\ lsSelectedCompany = Stringify(selectedCompany))
  /\ lastStep' = [kind |-> "reload", prev |-> selectedCompany,
                  wiped |-> (lsSelectedCompany = Absent /\ selectedCompany # NoCompany)]
  /\ SelAuthIdle
  /\ UNCHANGED <<user, session, profile, nav, eventsLeft,
                 ssMarker, dbActive, dbChangesLeft, signInsLeft, clears>>

\* ProtectedRoute renders the layout: CompanySelector mounts with fresh state
\* and a fresh useUserRole, whose effect starts a query.
MountSelector ==
  /\ ~selMounted
  /\ RouteShowsChildren(user, selectedCompany)
  /\ selMounted' = TRUE
  /\ SelectorFresh
  /\ roleQueries' = [u \in Users |-> IF u = user THEN 1 ELSE 0]
  /\ lastStep' = Other
  /\ SelAuthIdle
  /\ UNCHANGED <<user, session, profile, nav, eventsLeft, storeVars,
                 selectedCompany, modalCompanies, perfCompanies, dbActive,
                 dbChangesLeft, signInsLeft, reloadsLeft, clears, chosen, lastFetched>>

\* part_002 116-121: the sidebar collapses and the selector unmounts; its
\* effects are cleaned up, so the live fetch no longer applies anything.
UnmountSelector ==
  /\ selMounted
  /\ selMounted' = FALSE
  /\ SelectorFresh
  /\ roleQueries' = [u \in Users |-> 0]
  /\ lastStep' = Other
  /\ SelAuthIdle
  /\ UNCHANGED <<user, session, profile, nav, eventsLeft, storeVars,
                 selectedCompany, modalCompanies, perfCompanies, dbActive,
                 dbChangesLeft, signInsLeft, reloadsLeft, clears, chosen, lastFetched>>

\* AuthContext.tsx 172-179, 144-151: the session is refreshed and the provider
\* sets a new user object of the same identity.  useUserRole's effect starts
\* another query (useUserRole.tsx 12-33); the selector's effects run again:
\* the fresh-admin-login effect returns early (part_000 363), the fetch effect
\* cleans up its fetch and starts one with the selection at hand (part_000
\* 378-450).
SelUserRefresh ==
  /\ selMounted
  /\ eventsLeft > 0
  /\ eventsLeft' = eventsLeft - 1
  /\ RoleEffect(user)
  /\ roleOutcome' = roleOutcome
  /\ IF roleLoading
       THEN UNCHANGED <<fetch, selLoading>>
       ELSE /\ fetch' = [uid |-> user, role |-> role, sel |-> selectedCompany]
            /\ selLoading' = TRUE
  /\ lastStep' = Other
  /\ SelAuthIdle
  /\ UNCHANGED <<user, session, profile, nav, storeVars, selectedCompany,
                 selMounted, hasInitialized, companies, modalCompanies,
                 perfCompanies, dbActive, dbChangesLeft, signInsLeft, reloadsLeft,
                 clears, chosen, lastFetched>>

RoleAfter(u, outcome) == IF outcome = "ok" THEN Tier(u) ELSE role

\* What a pass of the fresh-admin-login effect found and did.
RulePass(r, cleared) ==
  [kind |-> "rulePass", role |-> r, prev |-> selectedCompany,
   marker |-> ssMarker, cleared |-> cleared, chosen |-> chosen]

\* useUserRole.tsx 19-30 and part_000 362-450: a role query of the selector's
\* hook returns.  When role or loading changed, the selector's two effects run:
\* the fresh-admin-login effect (unless hasInitialized) and the fetch effect,
\* which captures the selection of this render.  An admin left without a
\* selection is no longer shown the layout (part_006 55-59): the selector
\* unmounts.
SelRoleReturns ==
  \E outcome \in RoleQueryOutcomes :
    /\ selMounted
    /\ roleQueries[user] > 0
    /\ LET r == RoleAfter(user, outcome)
           depsChanged == r # role \/ roleLoading
           passes == depsChanged /\ ~hasInitialized
           clearsNow == passes /\ FreshAdminClears(r, selectedCompany, ssMarker)
       IN  /\ IF clearsNow
                THEN /\ SetSelectedCompany(NoCompany)
                     /\ ssMarker' = TRUE
                     /\ clears' = clears + 1
                     /\ chosen' = FALSE
                     /\ selMounted' = FALSE
                     /\ SelectorFresh
                     /\ roleQueries' = [u \in Users |-> 0]
                ELSE /\ KeepSelectedCompany
                     /\ UNCHANGED <<ssMarker, clears, chosen, selMounted, companies>>
                     /\ ApplyRole(user, outcome)
                     /\ roleOutcome' = IF outcome = "ok" THEN "ok" ELSE "failed"
                     /\ roleQueries' = [roleQueries EXCEPT ![user] = @ - 1]
                     /\ hasInitialized' = (hasInitialized \/ passes)
                     /\ IF depsChanged
                          THEN /\ fetch' = [uid |-> user, role |-> r,
                                            sel |-> selectedCompany]
                               /\ selLoading' = TRUE
                          ELSE UNCHANGED <<fetch, selLoading>>
           /\ lastStep' = IF passes THEN RulePass(r, clearsNow) ELSE Other
    /\ SelAuthIdle
    /\ UNCHANGED <<user, session, profile, nav, eventsLeft, modalCompanies,
                   perfCompanies, dbActive, dbChangesLeft, signInsLeft,
                   reloadsLeft, lastFetched>>

\* What a reconciliation found and did.
Reconciled(list) ==
  [kind |-> "reconciled", uid |-> fetch.uid, role |-> fetch.role,
   prev |-> selectedCompany, captured |-> fetch.sel, ids |-> Ids(list)]

\* part_000 381-446: the query of the live fetchCompanies call returns.
FetchReturns ==
  \E outcome \in {"ok", "error"} :
    /\ fetch # NoFetch
    /\ IF outcome = "ok"
         THEN LET list == VisibleList(fetch.role, fetch.uid)
                  rec == Reconcile(list, fetch.sel, fetch.role)
              IN  /\ companies' = list
                  /\ IF rec.set THEN SetSelectedCompany(rec.to)
                                ELSE KeepSelectedCompany
                  /\ lastFetched' = [uid |-> fetch.uid, role |-> fetch.role,
                                     ids |-> Ids(list)]
                  /\ lastStep' = Reconciled(list)
                  /\ chosen' = (chosen /\ (rec.set => rec.to.id = selectedCompany.id))
         ELSE /\ KeepSelectedCompany
              /\ UNCHANGED <<companies, lastFetched, chosen>>
              /\ lastStep' = Other
    /\ selLoading' = FALSE
    /\ fetch' = NoFetch
    /\ SelAuthIdle
    /\ UNCHANGED <<user, session, profile, nav, eventsLeft, roleVars, ssMarker,
                   selMounted, hasInitialized, modalCompanies, perfCompanies,
                   dbActive, dbChangesLeft, signInsLeft, reloadsLeft, clears>>

\* part_000 531-544: an admin picks a company in the "Trocar Empresa" dialog.
DialogSelect ==
  \E i \in 1..Len(companies) :
    /\ selMounted
    /\ role = "admin"
    /\ SetSelectedCompany(companies[i])
    /\ lastStep' = Other
    /\ chosen' = TRUE
    /\ SelAuthIdle
    /\ UNCHANGED <<user, session, profile, nav, eventsLeft, roleVars, ssMarker,
                   selMounted, hasInitialized, companies, selLoading, fetch,
                   modalCompanies, perfCompanies, dbActive, dbChangesLeft,
                   signInsLeft, reloadsLeft, clears, lastFetched>>

\* CompanySelectionModal.tsx 44-70: the open modal's query returns.
ModalFetchReturns ==
  /\ ModalIsOpen
  /\ modalCompanies' = ModalList
  /\ lastStep' = [kind |-> "modalListed"]
  /\ SelAuthIdle
  /\ UNCHANGED <<user, session, profile, nav, eventsLeft, roleVars, storeVars,
                 selectedCompany, selMounted, hasInitialized, companies,
                 selLoading, fetch, perfCompanies, dbActive, dbChangesLeft,
                 signInsLeft, reloadsLeft, clears, chosen, lastFetched>>

\* CompanySelectionModal.tsx 72-75: handleSelect.
ModalSelect ==
  \E i \in 1..Len(modalCompanies) :
    /\ ModalIsOpen
    /\ SetSelectedCompany(modalCompanies[i])
    /\ lastStep' = Other
    /\ chosen' = TRUE
    /\ SelAuthIdle
    /\ UNCHANGED <<user, session, profile, nav, eventsLeft, roleVars, ssMarker,
                   selMounted, hasInitialized, companies, selLoading, fetch,
                   modalCompanies, perfCompanies, dbActive, dbChangesLeft,
                   signInsLeft, reloadsLeft, clears, lastFetched>>

\* PerformanceHistory.tsx 83-101: an admin opens the page; loadCompanies.
PerfLoadCompanies ==
  /\ RouteShowsChildren(user, selectedCompany)
  /\ Tier(user) = "admin"
  /\ perfCompanies' = PerfList
  /\ lastStep' = [kind |-> "perfListed"]
  /\ SelAuthIdle
  /\ UNCHANGED <<user, session, profile, nav, eventsLeft, roleVars, storeVars,
                 selectedCompany, selMounted, hasInitialized, companies,
                 selLoading, fetch, modalCompanies, dbActive, dbChangesLeft,
                 signInsLeft, reloadsLeft, clears, chosen, lastFetched>>

\* Someone changes is_active of a company in the backend.
DbSetActive ==
  \E c \in Companies :
    /\ dbChangesLeft > 0
    /\ dbChangesLeft' = dbChangesLeft - 1
    /\ dbActive' = [dbActive EXCEPT ![c] = ~@]
    /\ lastStep' = Other
    /\ SelAuthIdle
    /\ UNCHANGED <<user, session, profile, nav, eventsLeft, roleVars, storeVars,
                   selectedCompany, selMounted, hasInitialized, companies,
                   selLoading, fetch, modalCompanies, perfCompanies,
                   signInsLeft, reloadsLeft, clears, chosen, lastFetched>>

\* The page is opened with a session to restore: CompanyProvider's state starts
\* from the two localStorage keys as they were left (CompanyContext.tsx 18-34)
\* and its effect persists it (36-45); AuthProvider restores identity u
\* (AuthContext.tsx 144-168) and stops loading.
StartPage ==
  \E u \in Users :
    /\ authLoading
    /\ user = NULL
    /\ authLoading' = FALSE
    /\ user' = u
    /\ session' = u
    /\ profile' = u
    /\ selectedCompany' = InitialSelection(lsSelectedCompany, lsSelectedCompanyId)
    /\ Persist(InitialSelection(lsSelectedCompany, lsSelectedCompanyId))
    /\ lastStep' = [kind |-> "pageLoad", saved |-> lsSelectedCompany,
                    legacyId |-> lsSelectedCompanyId]
    /\ UNCHANGED <<authMounted, initPc, initTimer, fetches, soPc, dashVars, gateVars,
                   nav, eventsLeft, roleVars, ssMarker, selMounted,
                   hasInitialized, companies, selLoading, fetch,
                   modalCompanies, perfCompanies, dbActive, dbChangesLeft,
                   signInsLeft, reloadsLeft, clears, chosen, lastFetched>>

\* ---- ProtectedRoute and CompanySelectionModal, each with its own useUserRole
\* (part_006 28-62, 74; CompanySelectionModal.tsx 17-27).  Below, role,
\* roleLoading and roleQueries are the state of the modal's instance, which
\* stays mounted at App level; ProtectedRoute's instance lives while a
\* protected page is shown.

\* part_006 28-61 with the state of ProtectedRoute's hooks.
RouteRenders ==
  ProtectedRouteRender(authLoading, user, routeRoleLoading, routeRole, FALSE,
                       selectedCompany)

GateIdle ==
  UNCHANGED <<authLoading, authMounted, initPc, initTimer, fetches, soPc, nav,
              selMounted, hasInitialized, companies, selLoading, fetch,
              modalCompanies, perfCompanies, dbActive, dbChangesLeft,
              reloadsLeft, clears, lastFetched, dashVars>>

\* AuthContext.tsx 144-151: identity u signs in on the loaded page; the
\* provider sets the user and starts fetchProfile.  The modal's hook runs its
\* effect for u; the Auth page navigates to a protected page, whose
\* ProtectedRoute mounts with a fresh hook and a first query.
GateSignIn ==
  \E u \in Users :
    /\ user = NULL
    /\ signInsLeft > 0
    /\ signInsLeft' = signInsLeft - 1
    /\ user' = u
    /\ session' = u
    /\ profile' = NULL
    /\ RoleEffect(u)
    /\ roleOutcome' = "none"
    /\ routeRole' = "user"
    /\ routeRoleLoading' = TRUE
    /\ routeRoleQueries' = 1
    /\ lastStep' = Other
    /\ GateIdle
    /\ UNCHANGED <<eventsLeft, storeVars, selectedCompany, chosen>>

\* AuthContext.tsx 34-60: fetchProfile's query answers with the row and the
\* profile is set; a query that fails for good never does this.
GateProfileLoaded ==
  /\ user # NULL
  /\ profile = NULL
  /\ profile' = user
  /\ lastStep' = Other
  /\ GateIdle
  /\ UNCHANGED <<user, session, eventsLeft, signInsLeft, roleVars, storeVars,
                 selectedCompany, chosen, gateVars>>

\* AuthContext.tsx 144-151: a refreshed session gives a new user object of
\* the same identity; both hooks run their effect again (useUserRole.tsx
\* 12-33).
GateRefresh ==
  /\ user # NULL
  /\ eventsLeft > 0
  /\ eventsLeft' = eventsLeft - 1
  /\ RoleEffect(user)
  /\ roleOutcome' = roleOutcome
  /\ routeRoleQueries < MaxRoleQueries
  /\ routeRoleQueries' = routeRoleQueries + 1
  /\ lastStep' = Other
  /\ GateIdle
  /\ UNCHANGED <<user, session, profile, signInsLeft, storeVars,
                 selectedCompany, chosen, routeRole, routeRoleLoading>>

\* useUserRole.tsx 19-30 in ProtectedRoute's instance: a role query returns.
RouteRoleReturns ==
  \E outcome \in RoleQueryOutcomes :
    /\ user # NULL
    /\ routeRoleQueries > 0
    /\ routeRoleQueries' = routeRoleQueries - 1
    /\ routeRole' = IF outcome = "ok" THEN Tier(user) ELSE routeRole
    /\ routeRoleLoading' = FALSE
    /\ lastStep' = Other
    /\ GateIdle
    /\ UNCHANGED <<user, session, profile, eventsLeft, signInsLeft, roleVars,
                   storeVars, selectedCompany, chosen>>

\* CompanySelectionModal.tsx 42-75: the open modal lists the active companies
\* and the admin picks one.
GateSelect ==
  \E i \in 1..Len(ModalList) :
    /\ IsOpen(user, authLoading, profile, roleLoading, role, selectedCompany)
    /\ SetSelectedCompany(ModalList[i])
    /\ chosen' = TRUE
    /\ lastStep' = Other
    /\ GateIdle
    /\ UNCHANGED <<user, session, profile, eventsLeft, signInsLeft, roleVars,
                   ssMarker, gateVars>>

\* AuthContext.tsx 188-208: signOut; ProtectedRoute redirects to /auth and is
\* unmounted with its hook, the modal's hook runs its effect for no user.
GateSignOut ==
  /\ user # NULL
  /\ SignOutClear
  /\ RoleEffect(NULL)
  /\ roleOutcome' = "none"
  /\ routeRole' = "user"
  /\ routeRoleLoading' = TRUE
  /\ routeRoleQueries' = 0
  /\ chosen' = FALSE
  /\ lastStep' = [kind |-> "signOut", how |-> "ok"]
  /\ GateIdle
  /\ UNCHANGED <<eventsLeft, signInsLeft, selectedCompany>>

\* ========================================================================
\* Dashboard (src/unnamed/part_003): the aggregation engine
\* ========================================================================

\* Percentages are fixed-point numbers in tenths of a percent (725 is 72.5%);
\* NoPct is a null column.  Dates are day numbers; ISO date strings compare
\* the same way.  What the page shows are whole percents.
NoPct == -1

\* Math.round(num / den) for den > 0: the nearest integer, halves upwards.
MathRound(num, den) == (2 * num + den) \div (2 * den)

\* Math.round(x ?? 0) of a column value in tenths.
RoundPct(pct) == MathRound(IF pct = NoPct THEN 0 ELSE pct, 10)

NoQuarter == [id |-> "none", start_date |-> 0, end_date |-> 0]
NoAppState == [company_id |-> NULL, quarters |-> <<>>, active_quarter |-> NoQuarter]

\* The backend tables before the dashboard is looked at, and the page unloaded.
NoRows ==
  [today |-> 0, home |-> FALSE, quarters |-> {}, results |-> {},
   profiles |-> [u \in Users |-> "missing"], objectives |-> {}, checkins |-> {}]

NoDashboard ==
  [pc |-> "idle", appState |-> NoAppState, activeObjectivesCount |-> 0, activeOKRsCount |-> 0,
   currentQuarterProgress |-> 0, userRankings |-> <<>>, objectiveRankings |-> <<>>,
   okrRankings |-> <<>>, quarterPerformance |-> <<>>,
   basicCalls |-> {}, roleLoads |-> {}, switchesLeft |-> 0,
   shownFor |-> [company |-> NULL, quarter |-> "none"]]

Range(s) == {s[i] : i \in 1..Len(s)}

\* Every order in which the backend may return the rows of a set.
Orders(S) ==
  {s \in [1..Cardinality(S) -> S] : \A i, j \in 1..Cardinality(S) : s[i] = s[j] => i = j}

RECURSIVE SumSeq(_)
SumSeq(s) == IF s = <<>> THEN 0 ELSE s[1] + SumSeq(Tail(s))

\* ---- loadBasicData (part_003 383-462)

\* .order('start_date', {ascending: false}): latest start first, ties any way.
QuartersQuery(db) ==
  {qs \in Orders(db.quarters) :
     \A i, j \in 1..Len(qs) : i < j => qs[i].start_date >= qs[j].start_date}

ContainsToday(q, today) == q.start_date <= today /\ q.end_date >= today

\* quarters.find(...) with the quarters[0] fallback (part_003 441-444), as the
\* same selection with the end date excluded.
ActiveQuarterEndExclusive(quarters, today) ==
  LET hits == {i \in 1..Len(quarters) :
                 quarters[i].start_date <= today /\ quarters[i].end_date > today}
  IN IF hits # {} THEN quarters[CHOOSE i \in hits : \A j \in hits : i <= j]
     ELSE quarters[1]

\* quarters.find(q => q.start_date <= today && q.end_date >= today), and
\* quarters[0] when none is found; quarters is not empty.
ActiveQuarter(quarters, today) ==
  LET hits == {i \in 1..Len(quarters) : ContainsToday(quarters[i], today)}
  IN IF hits # {} THEN quarters[CHOOSE i \in hits : \A j \in hits : i <= j]
     ELSE quarters[1]

\* The state loadBasicData leaves for the company of its closure and a backend
\* order qs of that company's quarters.
BasicState(companyId, db, qs) ==
  IF ~db.home \/ qs = <<>> THEN NoAppState
  ELSE [company_id |-> companyId, quarters |-> qs,
        active_quarter |-> ActiveQuarter(qs, db.today)]

\* ---- calculateQuarterProgress (part_003 90-144)

\* krCheckins[0] after the stable sort by created_at descending: the first row,
\* in the order the backend returned them, among the latest rows of the KR.
LatestOf(kr, rows) ==
  LET mine == {i \in 1..Len(rows) : rows[i].kr = kr}
      late == {i \in mine : \A j \in mine : rows[j].at <= rows[i].at}
  IN CHOOSE i \in late : \A j \in late : i <= j

RECURSIVE SumLatest(_, _)
SumLatest(krs, rows) ==
  IF krs = {} THEN 0
  ELSE LET kr == CHOOSE k \in krs : TRUE
       IN rows[LatestOf(kr, rows)].pct + SumLatest(krs \ {kr}, rows)

ProgressObjectives(db, quarterId, userId) ==
  {o \in db.objectives : o.quarter = quarterId /\ (userId = NULL \/ o.user = userId)}

\* The same computation with every fetched key result in the mean, those
\* without a check-in counted as 0.
CalculateQuarterProgressAllKrs(db, quarterId, userId, rows) ==
  LET krs == UNION {o.krs : o \in ProgressObjectives(db, quarterId, userId)}
      checked == {k \in krs : \E i \in 1..Len(rows) : rows[i].kr = k}
      lastAttainments == {k \in checked : rows[LatestOf(k, rows)].pct # NoPct}
  IN IF krs = {} \/ checked = {} \/ lastAttainments = {} THEN 0
     ELSE MathRound(SumLatest(lastAttainments, rows), 10 * Cardinality(krs))

CalculateQuarterProgress(db, quarterId, userId, rows) ==
  LET objectives == ProgressObjectives(db, quarterId, userId)
      krs == UNION {o.krs : o \in objectives}
      checked == {k \in krs : \E i \in 1..Len(rows) : rows[i].kr = k}
      lastAttainments == {k \in checked : rows[LatestOf(k, rows)].pct # NoPct}
  IN IF objectives = {} \/ krs = {} \/ checked = {} \/ lastAttainments = {} THEN 0
     ELSE MathRound(SumLatest(lastAttainments, rows), 10 * Cardinality(lastAttainments))

\* ---- quarter results

\* .maybeSingle() on quarter_results of (company, user, quarter), read as
\* `qResult && qResult.result_percent !== null`: no row and a null column are
\* the same to the callers.
ResultPercent(db, userId, quarterId) ==
  LET found == {r \in db.results : r.user = userId /\ r.quarter = quarterId}
  IN IF found = {} THEN NoPct ELSE (CHOOSE r \in found : TRUE).pct

RECURSIVE SumPct(_)
SumPct(S) ==
  IF S = {} THEN 0
  ELSE LET r == CHOOSE x \in S : TRUE IN r.pct + SumPct(S \ {r})

\* calculatedProgress of loadRoleDependentData (part_003 508-547).
ConsolidatedProgress(db, r, u, quarterId, rows) ==
  IF r # "admin"
  THEN LET v == ResultPercent(db, u, quarterId)
       IN IF v # NoPct THEN MathRound(v, 10)
          ELSE CalculateQuarterProgress(db, quarterId, u, rows)
  ELSE LET validResults == {x \in db.results : x.quarter = quarterId /\ x.pct # NoPct}
       IN IF validResults = {} THEN 0
          ELSE MathRound(SumPct(validResults), 10 * Cardinality(validResults))

\* ---- calculateQuarterPerformanceFromResults (part_003 146-191)

QuarterStatus(q, today) ==
  IF today >= q.start_date /\ today <= q.end_date THEN "current"
  ELSE IF today > q.end_date THEN "finished"
  ELSE "future"

\* The same history with the quarter result honoured for the current quarter
\* only.
CalculateQuarterPerformanceCurrentOnly(db, state, userId, rows) ==
  [i \in 1..Len(state.quarters) |->
     LET q == state.quarters[i]
         status == QuarterStatus(q, db.today)
         v == IF userId = NULL THEN NoPct ELSE ResultPercent(db, userId, q.id)
     IN [quarter_id |-> q.id,
         result_pct |->
           IF userId = NULL THEN CalculateQuarterProgress(db, q.id, NULL, rows)
           ELSE IF status # "current" THEN 0
           ELSE IF v # NoPct THEN MathRound(v, 10)
           ELSE CalculateQuarterProgress(db, q.id, userId, rows),
         is_active |-> q.id = state.active_quarter.id,
         status |-> status]]

CalculateQuarterPerformanceFromResults(db, state, userId, rows) ==
  [i \in 1..Len(state.quarters) |->
     LET q == state.quarters[i]
         status == QuarterStatus(q, db.today)
         v == IF userId = NULL THEN NoPct ELSE ResultPercent(db, userId, q.id)
     IN [quarter_id |-> q.id,
         result_pct |->
           IF userId = NULL THEN CalculateQuarterProgress(db, q.id, NULL, rows)
           ELSE IF v # NoPct THEN MathRound(v, 10)
           ELSE IF status = "current"
                THEN CalculateQuarterProgress(db, q.id, userId, rows)
           ELSE 0,
         is_active |-> q.id = state.active_quarter.id,
         status |-> status]]

\* ---- calculateUserRankingsFromResults (part_003 193-254)

\* A DESC order by a nullable percentage: the values never increase, and the
\* null rows come together, before or after the values.
DescNullable(s) ==
  /\ \A i, j \in 1..Len(s) :
       (i < j /\ s[i].pct # NoPct /\ s[j].pct # NoPct) => s[i].pct >= s[j].pct
  /\ \/ \A i, j \in 1..Len(s) : (i < j /\ s[j].pct = NoPct) => s[i].pct = NoPct
     \/ \A i, j \in 1..Len(s) : (i < j /\ s[i].pct = NoPct) => s[j].pct = NoPct

\* .order('result_percent', {ascending: false}) on the quarter's results.
ResultsQuery(db, quarterId) ==
  {rs \in Orders({r \in db.results : r.quarter = quarterId}) : DescNullable(rs)}

RECURSIVE CalculateUserRankingsFromResults(_, _)
CalculateUserRankingsFromResults(db, rs) ==
  IF rs = <<>> THEN <<>>
  ELSE LET rankings == CalculateUserRankingsFromResults(db, SubSeq(rs, 1, Len(rs) - 1))
           result == rs[Len(rs)]
       IN IF db.profiles[result.user] # "active" THEN rankings
          ELSE Append(rankings, [rank |-> Len(rankings) + 1,
                                 user_id |-> result.user,
                                 result_pct |-> RoundPct(result.pct)])

\* ---- calculateOKRRankings (part_003 321-376)

\* percent_kr of the key_results rows.
KrPercent(kr) == IF kr = "k1" THEN 800 ELSE IF kr = "k2" THEN NoPct ELSE 405

KrQuery(db, quarterId) ==
  LET krs == UNION {o.krs : o \in {x \in db.objectives : x.quarter = quarterId}}
  IN {s \in Orders({[kr |-> k, pct |-> KrPercent(k)] : k \in krs}) : DescNullable(s)}

CalculateOKRRankings(u, krs) ==
  IF u = NULL THEN <<>>
  ELSE [i \in 1..Len(krs) |-> [code |-> krs[i].kr, result_pct |-> RoundPct(krs[i].pct)]]

\* ---- calculateObjectiveRankings (part_003 256-319)

\* String.prototype.trim on a title given as its characters.
RECURSIVE Trim(_)
Trim(t) ==
  IF t = <<>> THEN <<>>
  ELSE IF Head(t) = " " THEN Trim(Tail(t))
  ELSE IF t[Len(t)] = " " THEN Trim(SubSeq(t, 1, Len(t) - 1))
  ELSE t

\* .eq('quarter_id', quarterId).eq('archived', false), in any row order.
ObjectivesQuery(db, quarterId) ==
  Orders({o \in db.objectives : o.quarter = quarterId /\ ~o.archived})

\* The keys of the groups Map, in insertion order.
RECURSIVE GroupTitles(_)
GroupTitles(objs) ==
  IF objs = <<>> THEN <<>>
  ELSE LET before == GroupTitles(SubSeq(objs, 1, Len(objs) - 1))
           title == Trim(objs[Len(objs)].title)
       IN IF title \in Range(before) THEN before ELSE Append(before, title)

GroupStats(title, objs) ==
  LET mine(i) == Trim(objs[i].title) = title
  IN [totalPct |-> SumSeq([i \in 1..Len(objs) |->
                     IF mine(i) /\ objs[i].pct # NoPct THEN objs[i].pct ELSE 0]),
      userCount |-> Cardinality({i \in 1..Len(objs) : mine(i)}),
      krCount |-> SumSeq([i \in 1..Len(objs) |->
                     IF mine(i) THEN Cardinality(objs[i].krs) ELSE 0])]

\* result, before the filter: one entry per group; also the rows upserted into
\* objective_group_results.
GroupResults(objs) ==
  LET titles == GroupTitles(objs)
  IN [i \in 1..Len(titles) |->
        LET stats == GroupStats(titles[i], objs)
        IN [objective_title |-> titles[i],
            result_pct |-> MathRound(stats.totalPct, 10 * stats.userCount),
            kr_count |-> stats.krCount]]

\* Array.prototype.sort((a, b) => b.result_pct - a.result_pct): stable.
RECURSIVE SortByPctDesc(_)
SortByPctDesc(s) ==
  IF s = <<>> THEN <<>>
  ELSE LET front == SortByPctDesc(SubSeq(s, 1, Len(s) - 1))
           x == s[Len(s)]
           k == Cardinality({i \in 1..Len(front) : front[i].result_pct >= x.result_pct})
       IN SubSeq(front, 1, k) \o <<x>> \o SubSeq(front, k + 1, Len(front))

\* The rollup with the filter of the older page (Dashboard.tsx 283): groups at
\* 0% are dropped whatever their key results.
CalculateObjectiveRankingsPctOnly(u, objs) ==
  IF u = NULL THEN <<>>
  ELSE LET Kept(item) == item.result_pct > 0
       IN SortByPctDesc(SelectSeq(GroupResults(objs), Kept))

CalculateObjectiveRankings(u, objs) ==
  IF u = NULL THEN <<>>
  ELSE LET Kept(item) == item.result_pct > 0 \/ item.kr_count > 0
       IN SortByPctDesc(SelectSeq(GroupResults(objs), Kept))

\* ---- the two effects of the page

\* loadBasicData to its end (part_003 378-469): the page has an identity and a
\* selected company.
LoadBasicData ==
  /\ dash.pc = "idle"
  /\ user # NULL
  /\ selectedCompany # NoCompany
  /\ \E qs \in QuartersQuery(okr) :
       dash' = [NoDashboard EXCEPT !.pc = "basic", !.appState = BasicState(selectedCompany.id, okr, qs)]
  /\ UNCHANGED <<authVars, roleVars, storeVars, selVars, gateVars, okr>>

\* loadRoleDependentData to its end (part_003 471-566), each query answered in
\* a row order the backend may use.
LoadRoleDependentData ==
  /\ dash.pc = "basic"
  /\ dash.appState # NoAppState
  /\ LET activeQuarter == dash.appState.active_quarter
         userIdFilter == IF role = "admin" THEN NULL ELSE user
         userObjectives == {o \in okr.objectives :
                              /\ o.quarter = activeQuarter.id
                              /\ ~o.archived
                              /\ (userIdFilter = NULL \/ o.user = userIdFilter)}
     IN \E rows \in Orders(okr.checkins),
           rs \in ResultsQuery(okr, activeQuarter.id),
           objs \in ObjectivesQuery(okr, activeQuarter.id),
           krs \in KrQuery(okr, activeQuarter.id) :
          dash' = [dash EXCEPT
            !.pc = "loaded",
            !.activeObjectivesCount = Cardinality(userObjectives),
            !.activeOKRsCount = Cardinality(UNION {o.krs : o \in userObjectives}),
            !.currentQuarterProgress = ConsolidatedProgress(okr, role, user, activeQuarter.id, rows),
            !.userRankings = CalculateUserRankingsFromResults(okr, rs),
            !.objectiveRankings = CalculateObjectiveRankings(user, objs),
            !.okrRankings = CalculateOKRRankings(user, krs),
            !.quarterPerformance =
               CalculateQuarterPerformanceFromResults(okr, dash.appState, userIdFilter, rows)]
  /\ UNCHANGED <<authVars, roleVars, storeVars, selVars, gateVars, okr>>

\* ---- the two effects with their calls in flight

\* The rows of company c, as the .eq('company_id', c) filters see them: okr
\* holds the rows of c1; every other company has one quarter and nothing else.
QZ == [id |-> "qz", start_date |-> 3, end_date |-> 5]
TablesOf(db, c) ==
  IF c = "c1" THEN db
  ELSE [db EXCEPT !.quarters = {QZ}, !.results = {}, !.objectives = {},
                  !.checkins = {}]

\* A loadBasicData call (part_003 381-462): the company of its closure, its
\* `mounted` flag, and the query it awaits.
BasicCall(c) == [company |-> c, mounted |-> TRUE, pc |-> "profile"]

\* part_003 466-468: the cleanup of the first effect.
Cleanup(calls) == {[k EXCEPT !.mounted = FALSE] : k \in calls}

\* A loadRoleDependentData call (part_003 474-565): the appState, company,
\* role and user of the render whose effect started it.
RoleLoad(state) ==
  [appState |-> state, company |-> selectedCompany.id, role |-> role, uid |-> user]

\* part_003 471-472, 565: the second effect runs after setAppState(state).
RoleEffectStarts(state) ==
  IF state # NoAppState /\ state.active_quarter # NoQuarter
    THEN {RoleLoad(state)} ELSE {}

\* The state setters of loadRoleDependentData in the order it calls them
\* (part_003 493, 503, 547, 550, 553, 556, 559).
Setters ==
  <<"activeObjectivesCount", "activeOKRsCount", "currentQuarterProgress",
    "userRankings", "objectiveRankings", "okrRankings", "quarterPerformance">>

SetterIndex(name) == CHOOSE i \in 1..Len(Setters) : Setters[i] = name

\* The five outputs, and where an await of the call may throw: while one of
\* them is computed.
Outputs ==
  {"currentQuarterProgress", "userRankings", "objectiveRankings", "okrRankings",
   "quarterPerformance"}

\* part_003 476-559: what the call computes, every query answered: the
\* queries of the body filter by the company of the closure, those of
\* calculateQuarterPerformanceFromResults by appState.company_id (167, 175).
Computed(db, load, rows, rs, objs, krs, stateRows) ==
  LET activeQuarter == load.appState.active_quarter
      mine == TablesOf(db, load.company)
      userIdFilter == IF load.role = "admin" THEN NULL ELSE load.uid
      userObjectives == {o \in mine.objectives :
                           /\ o.quarter = activeQuarter.id
                           /\ ~o.archived
                           /\ (userIdFilter = NULL \/ o.user = userIdFilter)}
  IN [activeObjectivesCount |-> Cardinality(userObjectives),
      activeOKRsCount |-> Cardinality(UNION {o.krs : o \in userObjectives}),
      currentQuarterProgress |->
        ConsolidatedProgress(mine, load.role, load.uid, activeQuarter.id, rows),
      userRankings |-> CalculateUserRankingsFromResults(mine, rs),
      objectiveRankings |-> CalculateObjectiveRankings(load.uid, objs),
      okrRankings |-> CalculateOKRRankings(load.uid, krs),
      quarterPerformance |->
        CalculateQuarterPerformanceFromResults(
          TablesOf(db, load.appState.company_id), load.appState, userIdFilter,
          stateRows)]

\* part_003 475-562: the setters run in order until an await throws; the one
\* try/catch around the body ends the call there.
Applied(d, computed, thrownAt) ==
  [f \in DOMAIN d |->
     IF /\ f \in Range(Setters)
        /\ (thrownAt = "none" \/ SetterIndex(f) < SetterIndex(thrownAt))
       THEN computed[f] ELSE d[f]]

DashIdle ==
  UNCHANGED <<user, session, profile, authLoading, authMounted, initPc, initTimer,
              fetches, soPc, nav, eventsLeft,
              roleVars, gateVars, selMounted, hasInitialized,
              companies, selLoading, fetch, modalCompanies, perfCompanies,
              dbActive, dbChangesLeft, signInsLeft, reloadsLeft, clears,
              chosen, lastFetched, okr>>

\* The selected company changes (part_000 540): the first effect is cleaned
\* up and runs again (part_003 378-381, 464-469).
DashSwitchCompany ==
  \E c \in Companies :
    /\ dash.switchesLeft > 0
    /\ c # selectedCompany.id
    /\ SetSelectedCompany(CompanyOf(c))
    /\ dash' = [dash EXCEPT !.switchesLeft = @ - 1,
                            !.basicCalls = Cleanup(@) \cup {BasicCall(c)}]
    /\ lastStep' = Other
    /\ DashIdle
    /\ UNCHANGED ssMarker

\* part_003 395-422: the profile query of a loadBasicData call answers.
BasicProfileReturns ==
  \E k \in dash.basicCalls :
    /\ k.pc = "profile"
    /\ dash' = IF ~k.mounted
                 THEN [dash EXCEPT !.basicCalls = @ \ {k}]
               ELSE IF ~okr.home
                 THEN [dash EXCEPT !.basicCalls = @ \ {k}, !.appState = NoAppState]
               ELSE [dash EXCEPT !.basicCalls = (@ \ {k}) \cup {[k EXCEPT !.pc = "quarters"]}]
    /\ lastStep' = [kind |-> "basicProfile", live |-> k.mounted,
                    applied |-> (k.mounted /\ ~okr.home)]
    /\ DashIdle
    /\ UNCHANGED <<storeVars, selectedCompany>>

\* part_003 424-455: the quarters query of a loadBasicData call answers; the
\* call sets appState, and the second effect starts loadRoleDependentData
\* with the render at hand (471-472, 565-566).
BasicQuartersReturns ==
  \E k \in dash.basicCalls, outcome \in {"ok", "error"} :
    /\ k.pc = "quarters"
    /\ \E qs \in QuartersQuery(TablesOf(okr, k.company)) :
         LET state == IF outcome = "ok"
                        THEN BasicState(k.company, TablesOf(okr, k.company), qs)
                        ELSE NoAppState
         IN dash' = [dash EXCEPT !.basicCalls = @ \ {k},
                                 !.appState = state,
                                 !.roleLoads = @ \cup RoleEffectStarts(state)]
    /\ lastStep' = [kind |-> "basicQuarters", live |-> k.mounted, applied |-> TRUE]
    /\ DashIdle
    /\ UNCHANGED <<storeVars, selectedCompany>>

\* part_003 474-563: a loadRoleDependentData call runs to its end, or to the
\* await that throws.
RoleLoadReturns ==
  \E load \in dash.roleLoads, thrownAt \in Outputs \cup {"none"} :
    LET mine == TablesOf(okr, load.company)
        quarterId == load.appState.active_quarter.id
    IN \E rows \in Orders(mine.checkins), rs \in ResultsQuery(mine, quarterId),
          objs \in ObjectivesQuery(mine, quarterId), krs \in KrQuery(mine, quarterId),
          stateRows \in Orders(TablesOf(okr, load.appState.company_id).checkins) :
         /\ dash' = [Applied(dash, Computed(okr, load, rows, rs, objs, krs, stateRows), thrownAt)
                       EXCEPT !.roleLoads = @ \ {load},
                              !.shownFor = [company |-> load.company,
                                            quarter |-> quarterId]]
         /\ lastStep' = [kind |-> "roleLoad", thrownAt |-> thrownAt,
                         live |-> (load.appState = dash.appState /\ load.role = role),
                         applied |-> TRUE,
                         computed |-> Computed(okr, load, rows, rs, objs, krs, stateRows)]
    /\ DashIdle
    /\ UNCHANGED <<storeVars, selectedCompany>>

\* ========================================================================
\* Initial states and specifications
\* ========================================================================

InitStoreEmpty ==
  /\ lsSelectedCompany = Absent
  /\ lsSelectedCompanyId = Absent
  /\ ssMarker = FALSE

InitAuthIdle ==
  /\ session = NULL
  /\ profile = NULL
  /\ authLoading = TRUE
  /\ authMounted = TRUE
  /\ initPc = "getSession"
  /\ initTimer = "pending"
  /\ fetches = {}
  /\ soPc = "idle"
  /\ lastStep = Other
  /\ nav = NULL

InitRoleIdle ==
  /\ role = "user"
  /\ roleLoading = TRUE
  /\ roleQueries = [u \in Users |-> 0]
  /\ roleOutcome = "none"

\* No selector mounted, nothing listed, every company active.
InitSelIdle ==
  /\ selMounted = FALSE
  /\ hasInitialized = FALSE
  /\ companies = <<>>
  /\ selLoading = TRUE
  /\ fetch = NoFetch
  /\ modalCompanies = <<>>
  /\ perfCompanies = <<>>
  /\ dbActive = [c \in Companies |-> TRUE]
  /\ clears = 0
  /\ chosen = FALSE
  /\ lastFetched = NoList
  /\ okr = NoRows
  /\ dash = NoDashboard
  /\ routeRole = "user"
  /\ routeRoleLoading = TRUE
  /\ routeRoleQueries = 0

\* The hook right after its first effect, for any identity at hand.
InitRole ==
  /\ user \in Users \cup {NULL}
  /\ role = "user"
  /\ roleLoading = (user # NULL)
  /\ roleQueries = [u \in Users |-> IF u = user THEN 1 ELSE 0]
  /\ roleOutcome = "none"
  /\ InitAuthIdle
  /\ InitStoreEmpty
  /\ InitSelIdle
  /\ selectedCompany = NoCompany
  /\ eventsLeft = 0
  /\ dbChangesLeft = 0
  /\ signInsLeft = 0
  /\ reloadsLeft = 0

NextRole ==
  \/ RoleUserChange
  \/ FetchRoleReturns
  \/ RoleRemount

SpecRole == InitRole /\ [][NextRole]_vars

\* AuthProvider right after its effect ran (AuthContext.tsx 28-31, 97-141): the
\* session request is out and the safety timeout is armed.  The browser may hold
\* a stored selection and a session marker from earlier use.
InitAuth ==
  /\ user = NULL
  /\ session = NULL
  /\ profile = NULL
  /\ authLoading = TRUE
  /\ authMounted = TRUE
  /\ initPc = "getSession"
  /\ initTimer = "pending"
  /\ fetches = {}
  /\ soPc = "idle"
  /\ lastStep = Other
  /\ nav = NULL
  /\ eventsLeft = MaxEvents
  /\ InitRoleIdle
  /\ \E stored \in BOOLEAN :
       /\ lsSelectedCompany = IF stored THEN <<"c1", "Zeta">> ELSE Absent
       /\ lsSelectedCompanyId = IF stored THEN <<"c1">> ELSE Absent
       /\ ssMarker = stored
       /\ selectedCompany = InitialSelection(lsSelectedCompany, lsSelectedCompanyId)
  /\ InitSelIdle
  /\ dbChangesLeft = 0
  /\ signInsLeft = 0
  /\ reloadsLeft = 0

NextAuth ==
  \/ GetSessionReturns
  \/ GetSessionThrows
  \/ GetSessionHangs
  \/ InitTimerFires
  \/ ProfileQueryReturns
  \/ ProfileQueryHangs
  \/ PermissionQueryReturns
  \/ RetryTimerFires
  \/ AuthStateChange
  \/ AuthUnmount
  \/ SignOutCall
  \/ SignOutRemoteEnds

SpecAuth == InitAuth /\ [][NextAuth]_vars

\* What the program does by itself once a request is answered or a timer is
\* due.  Requests that are never answered (ProfileQueryHangs, GetSessionHangs)
\* and what the user or the auth service initiate are not forced to happen.
AuthSystemStep ==
  \/ GetSessionReturns
  \/ GetSessionThrows
  \/ InitTimerFires
  \/ ProfileQueryReturns
  \/ PermissionQueryReturns
  \/ RetryTimerFires
  \/ SignOutRemoteEnds

SpecAuthFair == InitAuth /\ [][NextAuth]_vars /\ WF_vars(AuthSystemStep)

\* The selections the browser may hold from earlier use: none, a company, or
\* one restored from the legacy key (CompanyContext.tsx 26-29).
StoredSelections ==
  {NoCompany} \cup {CompanyOf(c) : c \in Companies}
              \cup {[id |-> "c1", name |-> Placeholder]}

\* The page has loaded: CompanyProvider holds the stored selection and its
\* effect has persisted it (CompanyContext.tsx 18-45); the session marker may
\* be set (a reload within a session); the identity is not resolved yet.
InitSel ==
  /\ user = NULL
  /\ InitAuthIdle
  /\ InitRoleIdle
  /\ InitSelIdle
  /\ selectedCompany \in StoredSelections
  /\ lsSelectedCompany = IF selectedCompany = NoCompany THEN Absent
                                                        ELSE Stringify(selectedCompany)
  /\ lsSelectedCompanyId = IF selectedCompany = NoCompany THEN Absent
                                                          ELSE <<selectedCompany.id>>
  /\ ssMarker \in BOOLEAN
  /\ eventsLeft = MaxEvents
  /\ dbChangesLeft = MaxDbChanges
  /\ signInsLeft = MaxSignIns
  /\ reloadsLeft = MaxReloads

NextSel ==
  \/ SelSignIn
  \/ SelSignOut
  \/ Reload
  \/ MountSelector
  \/ UnmountSelector
  \/ SelUserRefresh
  \/ SelRoleReturns
  \/ FetchReturns
  \/ DialogSelect
  \/ ModalFetchReturns
  \/ ModalSelect
  \/ PerfLoadCompanies
  \/ DbSetActive

SpecSel == InitSel /\ [][NextSel]_vars

\* ---- one session from the page load on

\* What the two localStorage keys may hold when the page is opened: nothing, a
\* structured record with its id, the id alone (written by the id-only
\* provider, part_004), or a record next to the id of another company.
StoredKeys ==
  {<<Absent, Absent>>, <<Absent, <<"c1">>>>,
   <<Stringify(CompanyOf("c1")), <<"c1">>>>,
   <<Stringify(CompanyOf("c2")), <<"c2">>>>,
   <<Stringify(CompanyOf("c2")), <<"c1">>>>}

\* The page is about to load: no provider state yet, the storage as it was
\* left, and c1 possibly deactivated in the meantime.
InitSession ==
  /\ user = NULL
  /\ InitAuthIdle
  /\ InitRoleIdle
  /\ selMounted = FALSE
  /\ hasInitialized = FALSE
  /\ companies = <<>>
  /\ selLoading = TRUE
  /\ fetch = NoFetch
  /\ modalCompanies = <<>>
  /\ perfCompanies = <<>>
  /\ dbActive \in {[c \in Companies |-> TRUE], [c \in Companies |-> c # "c1"]}
  /\ clears = 0
  /\ chosen = FALSE
  /\ lastFetched = NoList
  /\ okr = NoRows
  /\ dash = NoDashboard
  /\ routeRole = "user"
  /\ routeRoleLoading = TRUE
  /\ routeRoleQueries = 0
  /\ selectedCompany = NoCompany
  /\ \E k \in StoredKeys : lsSelectedCompany = k[1] /\ lsSelectedCompanyId = k[2]
  /\ ssMarker \in BOOLEAN
  /\ eventsLeft = MaxEvents
  /\ dbChangesLeft = MaxDbChanges
  /\ signInsLeft = 0
  /\ reloadsLeft = 0

NextSession ==
  \/ StartPage
  \/ MountSelector
  \/ UnmountSelector
  \/ SelUserRefresh
  \/ SelRoleReturns
  \/ FetchReturns
  \/ DialogSelect
  \/ ModalFetchReturns
  \/ ModalSelect
  \/ DbSetActive

SpecSession == InitSession /\ [][NextSession]_vars

\* ---- the admin gate: ProtectedRoute and the selection modal

\* The page has loaded without a session (the Auth page is shown): auth is
\* not loading, the modal's hook has run its effect for no user, and the
\* provider holds the stored selection, if any.
InitGate ==
  /\ user = NULL
  /\ session = NULL
  /\ profile = NULL
  /\ authLoading = FALSE
  /\ authMounted = TRUE
  /\ initPc = "done"
  /\ initTimer = "cleared"
  /\ fetches = {}
  /\ soPc = "idle"
  /\ lastStep = Other
  /\ nav = NULL
  /\ role = "user"
  /\ roleLoading = FALSE
  /\ roleQueries = [u \in Users |-> 0]
  /\ roleOutcome = "none"
  /\ InitSelIdle
  /\ selectedCompany \in {NoCompany, CompanyOf("c1")}
  /\ lsSelectedCompany = IF selectedCompany = NoCompany THEN Absent
                                                        ELSE Stringify(selectedCompany)
  /\ lsSelectedCompanyId = IF selectedCompany = NoCompany THEN Absent
                                                          ELSE <<selectedCompany.id>>
  /\ ssMarker = FALSE
  /\ eventsLeft = MaxEvents
  /\ dbChangesLeft = 0
  /\ signInsLeft = MaxSignIns
  /\ reloadsLeft = 0

NextGate ==
  \/ GateSignIn
  \/ GateProfileLoaded
  \/ GateRefresh
  \/ FetchRoleReturns
  \/ RouteRoleReturns
  \/ GateSelect
  \/ GateSignOut

SpecGate == InitGate /\ [][NextGate]_vars

\* ---- the dashboard: backend contents to aggregate

MaxDay == 7
MaxCheckins == 3
MaxObjectives == 3

QA == [id |-> "qa", start_date |-> 1, end_date |-> 2]
QB == [id |-> "qb", start_date |-> 4, end_date |-> 5]
QC == [id |-> "qc", start_date |-> 4, end_date |-> 6]
QuarterPool == {QA, QB, QC}

Objective(id, title, quarterId, u, archived, pct, krs) ==
  [id |-> id, title |-> title, quarter |-> quarterId, user |-> u,
   archived |-> archived, pct |-> pct, krs |-> krs]

Checkin(kr, pct, at) == [kr |-> kr, pct |-> pct, at |-> at]

PctPool == {NoPct, 400, 725}

\* At most one quarter_results row per (user, quarter): none, a null, a value.
ResultRows(u, quarterId) ==
  {{}} \cup {{[user |-> u, quarter |-> quarterId, pct |-> p]} : p \in PctPool}

AllActive == [u \in Users |-> "active"]

OneEachQuarter ==
  {Objective("o1", <<"a">>, "qa", "bob", FALSE, 400, {"k1"}),
   Objective("o2", <<"a">>, "qb", "bob", FALSE, 400, {"k2"}),
   Objective("o3", <<"a">>, "qc", "bob", FALSE, 400, {"k3"})}

OneCheckinEach ==
  {Checkin("k1", 600, 1), Checkin("k2", 305, 4), Checkin("k3", 500, 4)}

\* Any day, any quarters, the viewer with or without results.
RowsQuarters ==
  {[today |-> t, home |-> h, quarters |-> qs, results |-> ra \cup rb,
    profiles |-> AllActive, objectives |-> OneEachQuarter, checkins |-> cs] :
     t \in 0..MaxDay, h \in BOOLEAN, qs \in SUBSET QuarterPool,
     ra \in ResultRows("bob", "qa"), rb \in ResultRows("bob", "qb"),
     cs \in {{}, OneCheckinEach}}

CheckinPool ==
  {Checkin("k1", 200, 1), Checkin("k1", 800, 2), Checkin("k1", 500, 2),
   Checkin("k1", NoPct, 3), Checkin("k2", 810, 1), Checkin("k3", 0, 1)}

ObjectiveSets ==
  {{},
   {Objective("o1", <<"a">>, "qb", "bob", FALSE, 400, {})},
   {Objective("o1", <<"a">>, "qb", "bob", FALSE, 400, {"k1", "k2", "k3"})},
   {Objective("o1", <<"a">>, "qb", "bob", FALSE, 400, {"k1", "k2"}),
    Objective("o2", <<"b">>, "qb", "mel", FALSE, 400, {"k3"})}}

\* One current quarter, any few check-ins on its key results.
RowsCheckins ==
  {[today |-> 4, home |-> TRUE, quarters |-> {QB}, results |-> {},
    profiles |-> AllActive, objectives |-> os, checkins |-> cs] :
     os \in ObjectiveSets,
     cs \in {c \in SUBSET CheckinPool : Cardinality(c) <= MaxCheckins}}

\* One current quarter, results of three users with any profile.
RowsRankings ==
  {[today |-> 4, home |-> TRUE, quarters |-> {QB}, results |-> ra \cup rb \cup rm,
    profiles |-> [ana |-> "active", bob |-> pb, mel |-> pm],
    objectives |-> {}, checkins |-> {}] :
     ra \in ResultRows("ana", "qb"), rb \in ResultRows("bob", "qb"),
     rm \in ResultRows("mel", "qb"),
     pb \in {"active", "inactive"}, pm \in {"active", "inactive", "missing"}}

ObjectivePool ==
  {Objective("o1", <<"a">>, "qb", "bob", FALSE, 400, {"k1"}),
   Objective("o2", <<" ", "a">>, "qb", "mel", FALSE, 410, {"k2"}),
   Objective("o3", <<"b", " ">>, "qb", "bob", FALSE, 0, {"k3"}),
   Objective("o4", <<"c">>, "qb", "bob", FALSE, NoPct, {}),
   Objective("o5", <<"d">>, "qb", "bob", TRUE, 900, {}),
   Objective("o6", <<"e">>, "qb", "ana", FALSE, 900, {})}

\* One current quarter, any few objectives.
RowsObjectives ==
  {[today |-> 4, home |-> TRUE, quarters |-> {QB}, results |-> {},
    profiles |-> AllActive, objectives |-> os, checkins |-> {}] :
     os \in {o \in SUBSET ObjectivePool : Cardinality(o) <= MaxObjectives}}

\* The dashboard route is open for a signed-in identity with its role answered
\* and a company selected; nothing has been loaded yet.
InitDash ==
  /\ user \in {"ana", "bob"}
  /\ InitAuthIdle
  /\ role = Tier(user)
  /\ roleLoading = FALSE
  /\ roleQueries = [u \in Users |-> 0]
  /\ roleOutcome = "none"
  /\ selectedCompany = CompanyOf("c1")
  /\ lsSelectedCompany = Stringify(selectedCompany)
  /\ lsSelectedCompanyId = <<selectedCompany.id>>
  /\ ssMarker = TRUE
  /\ selMounted = FALSE
  /\ hasInitialized = FALSE
  /\ companies = <<>>
  /\ selLoading = TRUE
  /\ fetch = NoFetch
  /\ modalCompanies = <<>>
  /\ perfCompanies = <<>>
  /\ dbActive = [c \in Companies |-> TRUE]
  /\ clears = 0
  /\ chosen = FALSE
  /\ lastFetched = NoList
  /\ eventsLeft = 0
  /\ dbChangesLeft = 0
  /\ signInsLeft = 0
  /\ reloadsLeft = 0
  /\ okr \in RowsQuarters \cup RowsCheckins \cup RowsRankings \cup RowsObjectives
  /\ dash = NoDashboard
  /\ routeRole = "user"
  /\ routeRoleLoading = TRUE
  /\ routeRoleQueries = 0

NextDash ==
  \/ LoadBasicData
  \/ LoadRoleDependentData

SpecDash == InitDash /\ [][NextDash]_vars

\* ---- the dashboard while the selected company changes

MaxSwitches == 2

\* Company c1 with one current quarter, an objective of bob with a key result,
\* and bob with or without a stored result.
RowsSwitch ==
  {[today |-> 4, home |-> h, quarters |-> {QB}, results |-> rb,
    profiles |-> AllActive,
    objectives |-> {Objective("o1", <<"a">>, "qb", "bob", FALSE, 400, {"k1"})},
    checkins |-> {Checkin("k1", 800, 2)}] :
     h \in BOOLEAN, rb \in ResultRows("bob", "qb")}

\* The dashboard has mounted for a signed-in identity with company c1
\* selected: its first effect has started loadBasicData.
InitDashAsync ==
  /\ user \in {"ana", "bob"}
  /\ InitAuthIdle
  /\ role = Tier(user)
  /\ roleLoading = FALSE
  /\ roleQueries = [u \in Users |-> 0]
  /\ roleOutcome = "none"
  /\ selectedCompany = CompanyOf("c1")
  /\ lsSelectedCompany = Stringify(selectedCompany)
  /\ lsSelectedCompanyId = <<selectedCompany.id>>
  /\ ssMarker = TRUE
  /\ selMounted = FALSE
  /\ hasInitialized = FALSE
  /\ companies = <<>>
  /\ selLoading = TRUE
  /\ fetch = NoFetch
  /\ modalCompanies = <<>>
  /\ perfCompanies = <<>>
  /\ dbActive = [c \in Companies |-> TRUE]
  /\ clears = 0
  /\ chosen = FALSE
  /\ lastFetched = NoList
  /\ eventsLeft = 0
  /\ dbChangesLeft = 0
  /\ signInsLeft = 0
  /\ reloadsLeft = 0
  /\ okr \in RowsSwitch
  /\ dash = [NoDashboard EXCEPT !.basicCalls = {BasicCall("c1")},
                              !.switchesLeft = MaxSwitches]
  /\ routeRole = "user"
  /\ routeRoleLoading = TRUE
  /\ routeRoleQueries = 0

NextDashAsync ==
  \/ DashSwitchCompany
  \/ BasicProfileReturns
  \/ BasicQuartersReturns
  \/ RoleLoadReturns

SpecDashAsync == InitDashAsync /\ [][NextDashAsync]_vars

\* ========================================================================
\* Claims
\* ========================================================================

LocallyCleared ==
  /\ user = NULL
  /\ session = NULL
  /\ profile = NULL
  /\ lsSelectedCompany = Absent
  /\ lsSelectedCompanyId = Absent

\* The selection a reconciliation found is not in the list it fetched.
PrevNotInList ==
  lastStep.prev = NoCompany \/ lastStep.prev.id \notin lastStep.ids

\* C1: for an admin identity, after a tenant-list fetch completed successfully
\* with the previously selected company not in the fetched visible list, the
\* selection after reconciliation is null (no company is assigned to an admin).
C1_AdminSelectionNullWhenNotListed ==
  (/\ lastStep.kind = "reconciled"
   /\ Tier(lastStep.uid) = "admin"
   /\ lastStep.role = "admin"
   /\ PrevNotInList)
    => selectedCompany = NoCompany

\* C2: for a non-admin identity, after a tenant-list fetch completed
\* successfully with the previously selected company not in the fetched visible
\* list, the selection after reconciliation is the first company of the
\* name-ordered list, or null when the list is empty.
C2_NonAdminFirstOrNull ==
  (/\ lastStep.kind = "reconciled"
   /\ Tier(lastStep.uid) # "admin"
   /\ lastStep.role # "admin"
   /\ PrevNotInList)
    => selectedCompany = IF Len(companies) = 0 THEN NoCompany ELSE companies[1]

\* C3: once a tenant-list fetch has completed for the current identity and
\* role, the selected company is null or a member of the most recently fetched
\* visible list of that identity and role.
C3_SelectionInLastFetchedList ==
  (/\ selMounted
   /\ lastFetched # NoList
   /\ lastFetched.uid = user
   /\ lastFetched.role = role)
    => (selectedCompany = NoCompany \/ selectedCompany.id \in lastFetched.ids)

\* C4: every company list offered for selection (the selector's visible list,
\* the admin modal's list, the performance-history filter's list) holds, when
\* it is fetched, only companies with is_active = true.
C4_OnlyActiveCompaniesOffered ==
  /\ lastStep.kind = "reconciled" => \A c \in Ids(companies) : dbActive[c]
  /\ lastStep.kind = "modalListed" => \A c \in Ids(modalCompanies) : dbActive[c]
  /\ lastStep.kind = "perfListed" => \A c \in Ids(perfCompanies) : dbActive[c]

\* C5: signOut always ends with user, session and profile null, both
\* localStorage selection keys removed and a navigation to /auth, whether the
\* remote sign-out call resolved or threw; the navigation to /auth is issued
\* only by a step that has cleared the local state.
C5_SignOutClearsThenNavigates ==
  [][ /\ (soPc = "awaiting" /\ soPc' = "idle") => (LocallyCleared' /\ nav' = "/auth")
      /\ (nav' = "/auth" /\ nav # "/auth") => LocallyCleared' ]_vars

\* C5 witness: a sign-out whose remote call threw has ended, with a stored
\* selection to remove, and the navigation was issued.
C5_Witness ==
  /\ lastStep.kind = "signOut"
  /\ lastStep.how = "threw"
  /\ nav = "/auth"
  /\ LocallyCleared

\* C6: when the role query of the current identity failed or returned no tier,
\* or there is no identity, the role exposed by useUserRole is 'user'.
C6_FailClosed ==
  /\ (user = NULL => role = "user")
  /\ (user # NULL /\ roleOutcome = "failed" /\ roleQueries[user] = 0
        => role = "user")

\* C7: useUserRole.loading is true whenever a role query of the current
\* identity has been started and has not completed.
C7_LoadingWhileQueryOutstanding ==
  (user # NULL /\ roleQueries[user] > 0) => roleLoading

IsPrefix(s, t) ==
  /\ Len(s) <= Len(t)
  /\ \A i \in 1..Len(s) : s[i] = t[i]

\* C8: a failing profile fetch is retried at most 3 further times (4 attempts)
\* with the delays 1s, 2s, 3s; when the last attempt fails the profile is set
\* to null; and when that was the fetch of the initialization, initializeAuth
\* has completed, with loading = false while the provider is mounted.
C8_BoundedRetry ==
  /\ \A f \in fetches :
       /\ f.retryCount <= 3
       /\ Len(f.delays) = f.retryCount
       /\ IsPrefix(f.delays, <<1000, 2000, 3000>>)
  /\ (lastStep.kind = "attempt" /\ lastStep.how = "exhausted") => profile = NULL
  /\ (lastStep.kind = "attempt" /\ lastStep.how = "exhausted"
        /\ lastStep.origin = "init")
       => (initPc = "done" /\ (authMounted => ~authLoading))

\* C8 witness: the fourth attempt of the initialization's fetch has failed.
C8_Witness ==
  /\ lastStep.kind = "attempt"
  /\ lastStep.how = "exhausted"
  /\ lastStep.origin = "init"
  /\ authMounted
  /\ ~authLoading
  /\ profile = NULL

\* C9: while the auth provider stays mounted, the loading flag eventually
\* becomes false, whether or not the session request or the profile fetch of
\* the initialization ever returns.
C9_LoadingEventuallyFalse == <>(~authLoading \/ ~authMounted)

\* C10: fresh-admin-session rule.  A pass of the rule that finds an admin, a
\* selected company and no session marker leaves the selection null and the
\* marker admin_session_started set; a pass that finds the marker set clears
\* nothing; the marker stays set until sign-out, and the rule clears at most
\* once per session.
C10_FreshAdminSessionRule ==
  /\ (/\ lastStep.kind = "rulePass"
      /\ lastStep.role = "admin"
      /\ lastStep.prev # NoCompany
      /\ ~lastStep.marker)
       => (selectedCompany = NoCompany /\ ssMarker /\ lsSelectedCompany = Absent)
  /\ (lastStep.kind = "rulePass" /\ lastStep.marker)
       => (selectedCompany = lastStep.prev /\ ssMarker)
  /\ clears <= 1
  /\ clears = 1 => ssMarker

\* C10 witness: after the rule cleared once in this session, a later pass found
\* an admin with a selected company and the marker set, and cleared nothing.
C10_Witness ==
  /\ lastStep.kind = "rulePass"
  /\ lastStep.role = "admin"
  /\ lastStep.prev # NoCompany
  /\ lastStep.marker
  /\ clears = 1
  /\ selectedCompany = lastStep.prev

\* C11: for an authenticated identity whose role is admin and whose selected
\* company is null, the protected content (the layout with the selector, the
\* pages) is not rendered: ProtectedRoute renders the empty placeholder.
C11_AdminWithoutCompanySeesNoContent ==
  /\ (user # NULL /\ Tier(user) = "admin" /\ selectedCompany = NoCompany)
       => (/\ ~selMounted
           /\ ProtectedRouteRender(FALSE, user, FALSE, Tier(user), FALSE,
                                   selectedCompany) = "placeholder")
  /\ lastStep.kind = "perfListed" => selectedCompany # NoCompany

\* C11 witness: the fresh-admin-session rule has just cleared an admin's
\* selection, and the selector it ran in is gone.
C11_Witness ==
  /\ lastStep.kind = "rulePass"
  /\ lastStep.cleared
  /\ Tier(user) = "admin"
  /\ selectedCompany = NoCompany
  /\ ~selMounted

\* C12: the selection becomes null, and the persisted keys are removed, only
\* by signOut or by the fresh-admin-session rule (a reload that follows a
\* sign-out starts from the storage signOut emptied); no fetch, reconciliation,
\* role change, fetch failure, mount or unmount clears selection or storage.
C12_OnlySignOutOrRuleClears ==
  [][ /\ (selectedCompany # NoCompany /\ selectedCompany' = NoCompany)
        => \/ (lastStep'.kind = "rulePass" /\ lastStep'.cleared)
           \/ lastStep'.kind = "signOut"
           \/ (lastStep'.kind = "reload" /\ lastStep'.wiped)
      /\ (\/ (lsSelectedCompany # Absent /\ lsSelectedCompany' = Absent)
          \/ (lsSelectedCompanyId # Absent /\ lsSelectedCompanyId' = Absent))
        => \/ (lastStep'.kind = "rulePass" /\ lastStep'.cleared)
           \/ lastStep'.kind = "signOut" ]_vars

\* C12 witness: signOut has removed the persisted keys of a selection.
C12_Witness ==
  /\ lastStep.kind = "signOut"
  /\ selectedCompany # NoCompany
  /\ lsSelectedCompany = Absent
  /\ lsSelectedCompanyId = Absent

DashLoaded == dash.pc = "loaded"

\* The history entries of quarter quarterId on screen.
HistoryOf(quarterId) ==
  {dash.quarterPerformance[i].result_pct :
     i \in {j \in 1..Len(dash.quarterPerformance) :
              dash.quarterPerformance[j].quarter_id = quarterId}}

\* The viewer's quarter results that carry a percentage.
OwnResults == {r \in okr.results : r.user = user /\ r.pct # NoPct}

\* shown is the whole percent nearest to v tenths, a half going upwards.
NearestWhole(shown, v) == 10 * shown <= v + 5 /\ v + 5 < 10 * (shown + 1)

\* C14 as stated: for a non-admin identity, a quarter result with a non-null
\* percentage V makes both the consolidated progress (when the quarter is the
\* effective one) and the quarter's history entry show V itself, for any
\* quarter.
C14_OverrideShowsV ==
  (DashLoaded /\ role # "admin") =>
    \A r \in OwnResults :
      /\ r.quarter = dash.appState.active_quarter.id => 10 * dash.currentQuarterProgress = r.pct
      /\ \A shown \in HistoryOf(r.quarter) : 10 * shown = r.pct

\* C14 amended: for a non-admin identity, a quarter result with a non-null
\* percentage V makes both the consolidated progress (when the quarter is the
\* effective one) and the quarter's history entry show V rounded to the nearest
\* whole percent, halves upwards, whatever the check-ins say and whether the
\* quarter is current, finished or future.
C14_OverrideShowsRoundedV ==
  (DashLoaded /\ role # "admin") =>
    \A r \in OwnResults :
      /\ r.quarter = dash.appState.active_quarter.id => NearestWhole(dash.currentQuarterProgress, r.pct)
      /\ \A shown \in HistoryOf(r.quarter) : NearestWhole(shown, r.pct)

\* A finished quarter with a stored 72.5% and check-ins at 60% shows 73.
C14_Witness ==
  /\ DashLoaded
  /\ role # "admin"
  /\ okr.today = 4
  /\ okr.checkins # {}
  /\ [user |-> user, quarter |-> "qa", pct |-> 725] \in okr.results
  /\ HistoryOf("qa") = {73}

\* The check-ins with the latest created_at of key result kr.
LatestRows(kr) ==
  {c \in okr.checkins : c.kr = kr /\ \A d \in okr.checkins : d.kr = kr => d.at <= c.at}

RECURSIVE SumChosen(_, _)
SumChosen(f, krs) ==
  IF krs = {} THEN 0
  ELSE LET kr == CHOOSE k \in krs : TRUE IN f[kr].pct + SumChosen(f, krs \ {kr})

\* p is the rounded mean of the latest attainments of the key results, with at
\* least one check-in, of the objectives of (quarter[, user]); 0 without any.
IsMeanOfLatest(p, quarterId, userId) ==
  LET krs == UNION {o.krs : o \in {x \in okr.objectives :
                       x.quarter = quarterId /\ (userId = NULL \/ x.user = userId)}}
      checked == {k \in krs : \E c \in okr.checkins : c.kr = k}
  IN \E f \in [checked -> okr.checkins] :
       /\ \A k \in checked : f[k] \in LatestRows(k)
       /\ LET valued == {k \in checked : f[k].pct # NoPct}
              n == Cardinality(valued)
              sum == SumChosen(f, valued)
          IN IF n = 0 THEN p = 0
             ELSE 10 * n * p <= sum + 5 * n /\ sum + 5 * n < 10 * n * (p + 1)

\* C15: calculateQuarterProgress(company, quarter, user-or-all) is the rounded
\* arithmetic mean of the most recent (by creation timestamp) attainment of
\* each key result with at least one check-in, over the key results of the
\* objectives of (company, quarter[, user]), and 0 when there are no
\* objectives, key results or check-ins.  It is read where the page shows it:
\* every history entry of the admin view, and the consolidated progress and
\* current history entry of a viewer without a quarter result.
C15_ProgressIsMeanOfLatest ==
  DashLoaded =>
    /\ role = "admin" =>
         \A i \in 1..Len(dash.quarterPerformance) :
           IsMeanOfLatest(dash.quarterPerformance[i].result_pct,
                          dash.quarterPerformance[i].quarter_id, NULL)
    /\ (role # "admin"
        /\ ResultPercent(okr, user, dash.appState.active_quarter.id) = NoPct) =>
         IsMeanOfLatest(dash.currentQuarterProgress, dash.appState.active_quarter.id, user)

\* Latest attainments 80.0 and 81.0 on two key results, a third without a
\* check-in: the viewer's progress shows 81.
C15_Witness ==
  /\ DashLoaded
  /\ role # "admin"
  /\ \E o \in okr.objectives : o.user = user /\ o.krs = {"k1", "k2", "k3"}
  /\ okr.checkins = {Checkin("k1", 200, 1), Checkin("k1", 800, 2), Checkin("k2", 810, 1)}
  /\ dash.currentQuarterProgress = 81

\* C16: the progress value is a function of the set of check-ins alone: the
\* order in which the backend returns the rows does not change it.
C16_ProgressIndependentOfRowOrder ==
  DashLoaded =>
    \A rows \in Orders(okr.checkins) :
      dash.currentQuarterProgress = ConsolidatedProgress(okr, role, user,
                                           dash.appState.active_quarter.id, rows)

C18_HistoryEntries ==
  DashLoaded =>
    LET quarters == dash.appState.quarters
        perf == dash.quarterPerformance
    IN /\ Len(perf) = Len(quarters)
       /\ \A i \in 1..Len(perf) :
            LET q == quarters[i]
                v == ResultPercent(okr, user, q.id)
            IN /\ perf[i].quarter_id = q.id
               /\ perf[i].status \in {"current", "finished", "future"}
               /\ perf[i].status = "current"
                    <=> (q.start_date <= okr.today /\ okr.today <= q.end_date)
               /\ perf[i].status = "finished" <=> okr.today > q.end_date
               /\ perf[i].status = "future" <=> okr.today < q.start_date
               /\ role # "admin" =>
                    IF v # NoPct THEN NearestWhole(perf[i].result_pct, v)
                    ELSE IsMeanOfLatest(perf[i].result_pct, q.id, user)

\* The quarter_results rows the ranking is about: those of the effective
\* quarter whose user has an active profile.
RankedRows ==
  {r \in okr.results :
     r.quarter = dash.appState.active_quarter.id /\ okr.profiles[r.user] = "active"}

\* C19: the user rankings hold exactly one row per quarter_results row of the
\* effective quarter whose user has an active profile; the rows are in
\* non-increasing order of the shown percentage and ranked 1..n.
C19_UserRankings ==
  DashLoaded =>
    LET rankings == dash.userRankings
    IN /\ Len(rankings) = Cardinality(RankedRows)
       /\ {rankings[i].user_id : i \in 1..Len(rankings)} = {r.user : r \in RankedRows}
       /\ \A i \in 1..Len(rankings) : rankings[i].rank = i
       /\ \A i, j \in 1..Len(rankings) :
            i < j => rankings[i].result_pct >= rankings[j].result_pct

RECURSIVE TotalPct(_)
TotalPct(S) ==
  IF S = {} THEN 0
  ELSE LET o == CHOOSE x \in S : TRUE
       IN (IF o.pct = NoPct THEN 0 ELSE o.pct) + TotalPct(S \ {o})

RECURSIVE TotalKrs(_)
TotalKrs(S) ==
  IF S = {} THEN 0
  ELSE LET o == CHOOSE x \in S : TRUE IN Cardinality(o.krs) + TotalKrs(S \ {o})

\* The non-archived objectives of the effective quarter titled title, trimmed.
GroupMembers(title) ==
  {o \in okr.objectives :
     /\ o.quarter = dash.appState.active_quarter.id
     /\ ~o.archived
     /\ Trim(o.title) = title}

\* p is the mean of the members' percent_obj as a whole percent, halves up.
IsGroupPct(p, members) ==
  LET n == Cardinality(members)
      sum == TotalPct(members)
  IN 10 * n * p <= sum + 5 * n /\ sum + 5 * n < 10 * n * (p + 1)

\* C20: the objective rollups group the non-archived objectives of the
\* effective quarter by trimmed title; a group's percentage is the rounded
\* mean of its members' percent_obj and its KR count the sum of theirs; a
\* group is left out exactly when its percentage is 0 and its KR count is 0;
\* the groups are in non-increasing order of percentage.
C20_ObjectiveRollups ==
  DashLoaded =>
    LET rollups == dash.objectiveRankings
        titles == {Trim(o.title) : o \in {x \in okr.objectives :
                     x.quarter = dash.appState.active_quarter.id /\ ~x.archived}}
    IN /\ \A i, j \in 1..Len(rollups) :
            rollups[i].objective_title = rollups[j].objective_title => i = j
       /\ \A i \in 1..Len(rollups) :
            /\ rollups[i].objective_title \in titles
            /\ IsGroupPct(rollups[i].result_pct, GroupMembers(rollups[i].objective_title))
            /\ rollups[i].kr_count = TotalKrs(GroupMembers(rollups[i].objective_title))
       /\ \A t \in titles :
            (\A i \in 1..Len(rollups) : rollups[i].objective_title # t)
              <=> (IsGroupPct(0, GroupMembers(t)) /\ TotalKrs(GroupMembers(t)) = 0)
       /\ \A i, j \in 1..Len(rollups) :
            i < j => rollups[i].result_pct >= rollups[j].result_pct

\* Two objectives titled "a" and " a" at 40.0 and 41.0 form one group at 41
\* with two key results; the group "b" at 0 with a key result is kept.
C20_Witness ==
  /\ DashLoaded
  /\ \E a, b, c \in okr.objectives :
       /\ okr.objectives = {a, b, c}
       /\ a.title = <<"a">> /\ b.title = <<" ", "a">> /\ c.title = <<"b", " ">>
  /\ dash.objectiveRankings =
       << [objective_title |-> <<"a">>, result_pct |-> 41, kr_count |-> 2],
          [objective_title |-> <<"b">>, result_pct |-> 0, kr_count |-> 1] >>

\* ---- Cross-cutting

\* C25: a profile that is set belongs to the identity that is set: there is no
\* profile without a user, and no profile of another identity than the user.
C25_ProfileBelongsToUser ==
  profile # NULL => (user # NULL /\ profile = user)

\* C26: once signOut has completed the provider's selected company is null, so
\* that the identity signing in next does not start from the selection of the
\* identity that left.
C26_SignOutDropsSelection ==
  lastStep.kind = "signOut" => selectedCompany = NoCompany

\* C22: the selector's tenant fetch runs, and reconciles, only with a role
\* resolved for the current identity: no fetch is in flight while a role query
\* of that identity is still outstanding.
C22_FetchOnlyWithResolvedRole ==
  fetch # NoFetch => roleQueries[fetch.uid] = 0

\* C27: a company an admin picked in the selection modal or in the switch
\* dialog during the current session is never cleared by the
\* fresh-admin-session rule later in that session: a pass of the rule that
\* clears never finds a selection that was explicitly chosen.
C27_ChosenNeverClearedByRule ==
  (lastStep.kind = "rulePass" /\ lastStep.cleared) => ~lastStep.chosen

\* C28: a reconciliation that completes never overwrites a selection that
\* changed after its fetch began: when the selection at hand is no longer the
\* one the fetch captured (cleared by the rule, or set by an explicit choice,
\* in between), the completed fetch leaves the selection at hand unchanged.
C28_NoOverwriteOfNewerSelection ==
  (lastStep.kind = "reconciled" /\ lastStep.prev # lastStep.captured)
    => selectedCompany = lastStep.prev

\* C24: when the company selected before a reconciliation is in the fetched
\* list, the selection keeps its id and ends with the fetched name (so a
\* provisional 'Carregando...' entry ends with the real name); at page load the
\* legacy id key is used only when no structured record is stored.
C24_ReconcileKeepsIdAndRefreshesName ==
  /\ (lastStep.kind = "reconciled" /\ lastStep.prev # NoCompany
                                   /\ lastStep.prev.id \in lastStep.ids)
       => selectedCompany = CompanyOf(lastStep.prev.id)
  /\ lastStep.kind = "pageLoad"
       => selectedCompany =
            IF lastStep.saved # Absent THEN Parse(lastStep.saved)
            ELSE IF lastStep.legacyId # Absent
                   THEN [id |-> lastStep.legacyId[1], name |-> Placeholder]
                   ELSE NoCompany

\* C30: whenever ProtectedRoute renders the empty admin placeholder, the
\* company selection modal is open.
C30_PlaceholderImpliesModalOpen ==
  RouteRenders = "placeholder"
    => IsOpen(user, authLoading, profile, roleLoading, role, selectedCompany)

\* ---- Dashboard: failures and late results

Fallback(output) == IF output = "currentQuarterProgress" THEN 0 ELSE <<>>

\* C21: when, within one pass of loadRoleDependentData, the computation of one
\* of the five outputs fails, that output is left at its empty/zero fallback
\* and each of the other four shows what the pass computes for it.
C21_FailureIsolation ==
  (lastStep.kind = "roleLoad" /\ lastStep.thrownAt # "none")
    => \A o \in Outputs :
         dash[o] = IF o = lastStep.thrownAt THEN Fallback(o)
                                            ELSE lastStep.computed[o]

\* C23: a loadBasicData or loadRoleDependentData call that resolves after its
\* effect was cleaned up or run again for other dependencies applies nothing.
C23_NoLateApplication ==
  (lastStep.kind \in {"basicProfile", "basicQuarters", "roleLoad"} /\ ~lastStep.live)
    => ~lastStep.applied

\* C29: once no dashboard load is in flight, appState belongs to the selected
\* company, its quarter is one of that company's, and the aggregates on screen
\* were computed for that company and that quarter.
C29_LoadedForSelectedCompany ==
  (dash.basicCalls = {} /\ dash.roleLoads = {} /\ dash.appState # NoAppState)
    => /\ dash.appState.company_id = selectedCompany.id
       /\ dash.appState.active_quarter \in TablesOf(okr, selectedCompany.id).quarters
       /\ dash.shownFor = [company |-> selectedCompany.id,
                           quarter |-> dash.appState.active_quarter.id]

====
